---- MODULE Spec2Model ----
(***************************************************************************)
(* A model of PEMI, a transparent UDP middlebox for QUIC flows.            *)
(*                                                                         *)
(* Time.  An Instant and a Duration are integers counting microseconds.    *)
(* Duration::mul_f64 by a factor num/den is (d * num) \div den, i.e. the    *)
(* product rounded down to the model's time unit.  `Instant - Instant` is  *)
(* duration_since, which saturates at zero.                                *)
(*                                                                         *)
(* Option<T> is a sequence of length 0 (None) or 1 (Some).                 *)
(* A panic of the program is the field `abort` of the record it happens in.*)
(***************************************************************************)
EXTENDS Integers, Sequences, FiniteSets, TLC

(***************************************************************************)
(* Program constants (microseconds, packets)                               *)
(***************************************************************************)
CLOSE_THRESHOLD == 100
FLOWLET_MAX_PKTS == 100
DEFAULT_ELICITING_THRESHOLD == 1
WHEN_MEASURE_ELICITING_THRESHOLD == 50
MAX_QUEUE_PKTS == 1000
INIT_SMOOTHED_INTERVAL == 1000
IDLE_TIMEOUT == 120000000
RETRANS_LIMIT_AFTER == 100
DELAY_kGranularity == 1000
DELAY_kPacketThreshold == 3

(***************************************************************************)
(* Helpers                                                                 *)
(***************************************************************************)
Abs(x) == IF x < 0 THEN -x ELSE x

Min2(a, b) == IF a < b THEN a ELSE b

Max2(a, b) == IF a > b THEN a ELSE b

Last(s) == s[Len(s)]

\* Instant - Instant (Instant::duration_since): saturating
DurationSince(later, earlier) == IF later > earlier THEN later - earlier ELSE 0

\* Duration::mul_f64(num / den): (d * num) / den, without the large product
MulF(d, num, den) == (d \div den) * num + ((d % den) * num) \div den

RECURSIVE SeqMapSub(_, _)
\* the sequence of DurationSince(s[i], base)
SeqMapSub(s, base) ==
  IF s = <<>> THEN <<>>
  ELSE <<DurationSince(Head(s), base)>> \o SeqMapSub(Tail(s), base)

Range(s) == {s[i] : i \in 1..Len(s)}

(***************************************************************************)
(* Flowlet (queue.rs)                                                      *)
(***************************************************************************)
FlowletNew(pkt_num, begin_time) ==
  [pkt_nums |-> <<pkt_num>>, close_count |-> 0,
   reply_pkt_times |-> <<>>, reply_pkt_nums |-> <<>>,
   begin_time |-> begin_time, end_time |-> begin_time, complete |-> FALSE]

\* FlowletAdd putting the packet number at the front of pkt_nums
FlowletAddFront(fl, packet_num, forward_ts) ==
  [fl EXCEPT !.pkt_nums = <<packet_num>> \o @, !.end_time = forward_ts]

FlowletAdd(fl, packet_num, forward_ts) ==
  [fl EXCEPT
     !.close_count = IF Len(fl.pkt_nums) # 0
                        /\ DurationSince(forward_ts, fl.end_time) < CLOSE_THRESHOLD
                     THEN @ + 1 ELSE @,
     !.pkt_nums = Append(@, packet_num),
     !.end_time = forward_ts]

exactly_replyed(fl) == Len(fl.reply_pkt_times) = Len(fl.pkt_nums)

add_reply(fl, come_time, pkt_num) ==
  [fl EXCEPT !.reply_pkt_times = Append(@, come_time),
             !.reply_pkt_nums = Append(@, pkt_num)]

\* |reply[j-1] - sent[i-1] - used_rtt| for the code's 1-based dp indices i, j
DpCost(sent, reply, used_rtt, i, j) == Abs((reply[j] - sent[i]) - used_rtt)

\* option A of the dp step: dp[i-1][j-1] + cost; -1 stands for f64::INFINITY
DpTake(a, cost) == IF a = -1 THEN -1 ELSE a + cost

\* option B replacing option A only where option A is impossible
DpSkipsIfForced(take, skip) == skip # -1 /\ take = -1

\* `dp[i - 1][j] < best`: option B (skip sent[i-1]) replaces option A
DpPrefersSkip(take, skip) == skip # -1 /\ (take = -1 \/ skip < take)

DpMin(take, skip) == IF DpPrefersSkip(take, skip) THEN skip ELSE take

\* dp[0]: dp[0][0] = 0 and f64::INFINITY beyond; dp[i][j] is row[j + 1] of table[i + 1]
DpRow0(reply) == [jj \in 1..Len(reply) + 1 |-> IF jj = 1 THEN 0 ELSE -1] \o <<>>

\* dp[i] from dp[i - 1]: dp[i][0] = 0, dp[i][j] for j up to min(i, m), INFINITY beyond
DpRow(dp_prev, sent, reply, used_rtt, i) ==
  [jj \in 1..Len(reply) + 1 |->
     IF jj = 1 THEN 0
     ELSE IF jj - 1 > i THEN -1
     ELSE DpMin(DpTake(dp_prev[jj - 1], DpCost(sent, reply, used_rtt, i, jj - 1)),
                dp_prev[jj])] \o <<>>

DpExtend(dp, sent, reply, used_rtt, i) ==
  Append(dp, DpRow(dp[i], sent, reply, used_rtt, i))

RECURSIVE DpTable(_, _, _, _)
\* the rows dp[0..i] of the table
DpTable(sent, reply, used_rtt, i) ==
  IF i = 0 THEN <<DpRow0(reply)>>
  ELSE DpExtend(DpTable(sent, reply, used_rtt, i - 1), sent, reply, used_rtt, i)

\* dp[i][j]
DpVal(dp, i, j) == dp[i + 1][j + 1]

\* prev[i][j] chooses "skip sent[i-1]" (option B)
DpSkips(dp, sent, reply, used_rtt, i, j) ==
  \/ j = 0
  \/ DpPrefersSkip(DpTake(DpVal(dp, i - 1, j - 1), DpCost(sent, reply, used_rtt, i, j)),
                   DpVal(dp, i - 1, j))

RECURSIVE DpBacktrack(_, _, _, _, _, _)
\* the mapping of sent[0..i) given j replies left; -1 stands for usize::MAX
DpBacktrack(dp, sent, reply, used_rtt, i, j) ==
  IF i = 0 THEN <<>>
  ELSE IF DpSkips(dp, sent, reply, used_rtt, i, j)
       THEN Append(DpBacktrack(dp, sent, reply, used_rtt, i - 1, j), -1)
       ELSE Append(DpBacktrack(dp, sent, reply, used_rtt, i - 1, j - 1), j - 1)

match_sent_reply_dp(sent, reply, used_rtt) ==
  DpBacktrack(DpTable(sent, reply, used_rtt, Len(sent)), sent, reply, used_rtt,
              Len(sent), Len(reply))

match_sent_part_reply(fl, sent_pkt_times, reply_rtt) ==
  LET sent_duration == DurationSince(fl.end_time, fl.begin_time)
      reply_duration == DurationSince(Last(fl.reply_pkt_times), fl.reply_pkt_times[1])
      used_rtt == IF reply_duration < MulF(sent_duration, 8, 10)
                  THEN reply_rtt
                  ELSE DurationSince(Last(fl.reply_pkt_times), fl.end_time)
      base == sent_pkt_times[1]
  IN match_sent_reply_dp(SeqMapSub(sent_pkt_times, base),
                         SeqMapSub(fl.reply_pkt_times, base), used_rtt)

RECURSIVE CloseBefore(_, _, _, _)
\* the backward loop of extract_part_loss; j is a 1-based index
CloseBefore(inferred, times, reply, j) ==
  IF j >= 1 /\ inferred[j] = -1
     /\ DurationSince(times[j + 1], times[j]) < CLOSE_THRESHOLD
  THEN CloseBefore([inferred EXCEPT ![j] = reply], times, reply, j - 1)
  ELSE inferred

\* extract_part_loss without its loop over the close packets after a mapped one
CloseAfterNone(inferred, times, reply, j) == inferred

RECURSIVE CloseAfter(_, _, _, _)
\* the forward loop of extract_part_loss
CloseAfter(inferred, times, reply, j) ==
  IF j <= Len(inferred) /\ inferred[j] = -1
     /\ DurationSince(times[j], times[j - 1]) < CLOSE_THRESHOLD
  THEN CloseAfter([inferred EXCEPT ![j] = reply], times, reply, j + 1)
  ELSE inferred

RECURSIVE InferClose(_, _, _, _)
\* the first loop of extract_part_loss, from index i on
InferClose(inferred, times, map, i) ==
  IF i > Len(map) THEN inferred
  ELSE IF map[i] = -1 THEN InferClose(inferred, times, map, i + 1)
  ELSE LET a == [inferred EXCEPT ![i] = map[i]]
           b == CloseBefore(a, times, map[i], i - 1)
           c == CloseAfter(b, times, map[i], i + 1)
       IN InferClose(c, times, map, i + 1)

RECURSIVE RunEnd(_, _)
\* first index >= right whose entry has an inferred reply (Len + 1 if none)
RunEnd(inferred, right) ==
  IF right <= Len(inferred) /\ inferred[right] = -1
  THEN RunEnd(inferred, right + 1) ELSE right

RECURSIVE InferEliciting(_, _, _)
\* the two-pointer loop of extract_part_loss
InferEliciting(inferred, thr, left) ==
  IF left > Len(inferred) THEN inferred
  ELSE IF inferred[left] # -1 THEN InferEliciting(inferred, thr, left + 1)
  ELSE LET right == RunEnd(inferred, left)
       IN IF right = Len(inferred) + 1 THEN inferred
          ELSE IF right - left < thr
               THEN InferEliciting([k \in 1..Len(inferred) |->
                                      IF k >= left /\ k < right THEN 0 ELSE inferred[k]],
                                   thr, right)
               ELSE InferEliciting(inferred, thr, right)

extract_part_loss(fl, sent_pkt_times, sent_to_reply_map, eliciting_threshold) ==
  LET n == Len(sent_pkt_times)
      init == [k \in 1..n |-> -1]
      a == InferClose(init, sent_pkt_times, sent_to_reply_map, 1)
      b == IF eliciting_threshold >= 2 THEN InferEliciting(a, eliciting_threshold, 1) ELSE a
  IN {fl.pkt_nums[k] : k \in {x \in 1..n : b[x] = -1}}

RECURSIVE RttSamplesFrom(_, _, _, _)
RttSamplesFrom(fl, map, sent_pkt_times, i) ==
  IF i > Len(map) THEN <<>>
  ELSE (IF map[i] # -1
        THEN <<DurationSince(fl.reply_pkt_times[map[i] + 1], sent_pkt_times[i])>>
        ELSE <<>>) \o RttSamplesFrom(fl, map, sent_pkt_times, i + 1)

extract_rtt_samples(fl, sent_to_reply_map, sent_pkt_times) ==
  RttSamplesFrom(fl, sent_to_reply_map, sent_pkt_times, 1)

(***************************************************************************)
(* PacketQueue (queue.rs)                                                  *)
(*                                                                         *)
(* A Packet is [number, timestamp, raw, payload]: raw = TRUE for           *)
(* Packet::Raw, FALSE for Packet::Retrans (payload 0).  The two factors    *)
(* are stored in halves: 4 is the f64 2.0 and 1 is 0.5.                    *)
(***************************************************************************)
PacketQueueNew(now, interval_factor, end_factor) ==
  [packets |-> <<>>, detected_loss |-> <<>>, flowlets |-> <<>>,
   processed |-> 0, reply_nums |-> 0,
   last_packet_time |-> now,
   smoothed_interval |-> INIT_SMOOTHED_INTERVAL,
   eliciting_threshold |-> DEFAULT_ELICITING_THRESHOLD,
   flowlet_interval_factor |-> interval_factor,
   flowlet_end_factor |-> end_factor,
   abort |-> FALSE]

record_packet_interval(q, forward_ts) ==
  LET interval == DurationSince(forward_ts, q.last_packet_time)
  IN [q EXCEPT !.last_packet_time = forward_ts,
               !.smoothed_interval = MulF(@, 875, 1000) + MulF(interval, 125, 1000)]

flowlet_timeout(q) == MulF(q.smoothed_interval, q.flowlet_interval_factor, 2)

flowlet_end_timeout(q, reply_rtt) ==
  reply_rtt + MulF(flowlet_timeout(q), q.flowlet_end_factor, 2)

measure_eliciting_threshold(q) ==
  [q EXCEPT !.eliciting_threshold =
     IF q.reply_nums < (q.processed * 6) \div 10 THEN 2 ELSE 1]

oldest_ts(q) == IF q.packets = <<>> THEN <<>> ELSE <<q.packets[1].timestamp>>

newest_ts(q) == IF q.packets = <<>> THEN <<>> ELSE <<Last(q.packets).timestamp>>

have_retransmit(q) == q.detected_loss # <<>>

\* the packet number PacketQueue::add gives the packet it inserts
NextPacketNumberStuck(q) == IF q.processed = 0 THEN 1 ELSE q.processed

NextPacketNumber(q) == q.processed + 1

\* whether PacketQueue::add opens a new flowlet for a packet forwarded at forward_ts
OpensNewFlowlet(q, forward_ts) ==
  \/ newest_ts(q) = <<>>
  \/ DurationSince(forward_ts, newest_ts(q)[1]) > flowlet_timeout(q)

\* PacketQueue::add without its upper bound on the queue
TooManyPacketsNever(q) == FALSE

\* `self.packets.len() > 1000`: PacketQueue::add panics
TooManyPackets(q) == Len(q.packets) > MAX_QUEUE_PKTS

\* PacketQueue::add; payload is <<>> for a retransmitted packet, <<id>> for a raw one.
\* The result is [q, pkt_num, new_flowlet].
PacketQueueAdd(q0, forward_ts, payload, side_rtt) ==
  LET q1 == IF payload # <<>> THEN record_packet_interval(q0, forward_ts) ELSE q0
      q2 == [q1 EXCEPT !.processed = NextPacketNumber(q1)]
      q3 == IF q2.processed % WHEN_MEASURE_ELICITING_THRESHOLD = 0
            THEN measure_eliciting_threshold(q2) ELSE q2
      isnew == OpensNewFlowlet(q3, forward_ts)
      pkt == [number |-> q3.processed, timestamp |-> forward_ts,
              raw |-> payload # <<>>,
              payload |-> IF payload # <<>> THEN payload[1] ELSE 0]
  IN IF TooManyPackets(q3) \/ (~isnew /\ q3.flowlets = <<>>)
     THEN [q |-> [q3 EXCEPT !.abort = TRUE], pkt_num |-> q3.processed, new_flowlet |-> FALSE]
     ELSE [q |-> [q3 EXCEPT
                    !.flowlets = IF isnew
                                 THEN Append(@, FlowletNew(q3.processed, forward_ts))
                                 ELSE [q3.flowlets EXCEPT ![Len(q3.flowlets)] =
                                         FlowletAdd(Last(q3.flowlets), q3.processed, forward_ts)],
                    !.packets = Append(@, pkt)],
           pkt_num |-> q3.processed, new_flowlet |-> isnew]

\* PacketQueue::get_packet panics on this
NoSuchPacket(q, num) ==
  q.packets = <<>> \/ num < q.packets[1].number \/ num > Last(q.packets).number

get_packet(q, num) == q.packets[num - q.packets[1].number + 1]

RECURSIVE SentTimes(_, _)
SentTimes(q, nums) ==
  IF nums = <<>> THEN <<>>
  ELSE <<get_packet(q, Head(nums)).timestamp>> \o SentTimes(q, Tail(nums))

\* ExactSamples pairing every reply with the first packet of the flowlet
ExactSamplesFirst(q, fl, i) ==
  [k \in 1..Len(fl.pkt_nums) - i + 1 |->
     DurationSince(fl.reply_pkt_times[k + i - 1], get_packet(q, fl.pkt_nums[1]).timestamp)]

RECURSIVE ExactSamples(_, _, _)
\* the RTT samples of an exactly replied flowlet, from index i on
ExactSamples(q, fl, i) ==
  IF i > Len(fl.pkt_nums) THEN <<>>
  ELSE <<DurationSince(fl.reply_pkt_times[i], get_packet(q, fl.pkt_nums[i]).timestamp)>>
       \o ExactSamples(q, fl, i + 1)

\* whether remove_a_complete_flowlet queues a lost packet for retransmission
QueuesForRetransAll(pkt) == TRUE

QueuesForRetrans(pkt) == pkt.raw

RECURSIVE PopFlowletPackets(_, _, _)
\* the loop of remove_a_complete_flowlet over fl.pkt_nums
PopFlowletPackets(q, nums, lossed_pkts) ==
  IF nums = <<>> \/ q.abort THEN q
  ELSE IF q.packets = <<>> \/ q.packets[1].number # Head(nums)
       THEN [q EXCEPT !.abort = TRUE]
       ELSE LET pkt == q.packets[1]
                q1 == [q EXCEPT !.packets = Tail(@),
                                !.detected_loss =
                                   IF Head(nums) \in lossed_pkts /\ QueuesForRetrans(pkt)
                                   THEN Append(@, pkt) ELSE @]
            IN PopFlowletPackets(q1, Tail(nums), lossed_pkts)

\* remove_a_complete_flowlet without the pops of the packets deque
remove_flowlet_only(q, lossed_pkts) ==
  IF q.flowlets = <<>> \/ ~q.flowlets[1].complete THEN [q EXCEPT !.abort = TRUE]
  ELSE [q EXCEPT !.flowlets = Tail(@)]

remove_a_complete_flowlet(q, lossed_pkts) ==
  IF q.flowlets = <<>> \/ ~q.flowlets[1].complete THEN [q EXCEPT !.abort = TRUE]
  ELSE PopFlowletPackets([q EXCEPT !.flowlets = Tail(@)], q.flowlets[1].pkt_nums, lossed_pkts)

\* the loss set and the RTT samples of a partly replied flowlet
PartVerdict(fl, times, map, eliciting_threshold) ==
  [lossed_pkts |-> extract_part_loss(fl, times, map, eliciting_threshold),
   rtt_samples |-> extract_rtt_samples(fl, map, times)]

PartlyReplied(q, fl, times, reply_rtt) ==
  PartVerdict(fl, times, match_sent_part_reply(fl, times, reply_rtt), q.eliciting_threshold)

\* FlowletVerdict that finds no loss in a flowlet without a reply
FlowletVerdictLossless(q, reply_rtt) ==
  IF Len(q.flowlets[1].pkt_nums) <= Len(q.flowlets[1].reply_pkt_times)
     \/ q.flowlets[1].reply_pkt_times = <<>>
  THEN [lossed_pkts |-> {},
        rtt_samples |-> IF exactly_replyed(q.flowlets[1])
                        THEN ExactSamples(q, q.flowlets[1], 1) ELSE <<>>]
  ELSE PartlyReplied(q, q.flowlets[1], SentTimes(q, q.flowlets[1].pkt_nums), reply_rtt)

\* the loss set and the RTT samples complete_one_flowlet computes for flowlets[0]
FlowletVerdict(q, reply_rtt) ==
  IF Len(q.flowlets[1].pkt_nums) < Len(q.flowlets[1].reply_pkt_times)
  THEN [lossed_pkts |-> {}, rtt_samples |-> <<>>]
  ELSE IF exactly_replyed(q.flowlets[1])
  THEN [lossed_pkts |-> {}, rtt_samples |-> ExactSamples(q, q.flowlets[1], 1)]
  ELSE IF q.flowlets[1].reply_pkt_times = <<>>
  THEN [lossed_pkts |-> Range(q.flowlets[1].pkt_nums), rtt_samples |-> <<>>]
  ELSE PartlyReplied(q, q.flowlets[1], SentTimes(q, q.flowlets[1].pkt_nums), reply_rtt)

\* what complete_one_flowlet leaves: the queue, the samples, and the record
\* [pkts, lossed_pkts, replies, samples] of the flowlet taken out (pkts: its
\* Packet records, replies: its reply_pkt_times, samples: its RTT samples)
Completed(q, fl, v) ==
  [q |-> remove_a_complete_flowlet(q, v.lossed_pkts),
   samples |-> v.rtt_samples,
   removed |-> <<[pkts |-> [k \in 1..Len(fl.pkt_nums) |-> get_packet(q, fl.pkt_nums[k])],
                  lossed_pkts |-> v.lossed_pkts,
                  replies |-> fl.reply_pkt_times,
                  samples |-> v.rtt_samples]>>]

\* complete_one_flowlet; the result is [q, samples, removed]
complete_one_flowlet(q, reply_rtt) ==
  IF q.flowlets = <<>> \/ ~q.flowlets[1].complete
     \/ \E k \in 1..Len(q.flowlets[1].pkt_nums) : NoSuchPacket(q, q.flowlets[1].pkt_nums[k])
  THEN [q |-> [q EXCEPT !.abort = TRUE], samples |-> <<>>, removed |-> <<>>]
  ELSE Completed(q, q.flowlets[1], FlowletVerdict(q, reply_rtt))

\* the results of two consecutive completions, joined
Joined(r, rest) ==
  [q |-> rest.q, samples |-> r.samples \o rest.samples, removed |-> r.removed \o rest.removed]

\* check_reply without its completion loop: nothing is taken out
DrainCompleteNever(q, reply_rtt) == [q |-> q, samples |-> <<>>, removed |-> <<>>]

RECURSIVE DrainComplete(_, _)
DrainRest(r, reply_rtt) == Joined(r, DrainComplete(r.q, reply_rtt))

\* while !flowlets.is_empty() && flowlets[0].is_complete() { complete_one_flowlet }
DrainComplete(q, reply_rtt) ==
  IF q.abort \/ q.flowlets = <<>> \/ ~q.flowlets[1].complete
  THEN [q |-> q, samples |-> <<>>, removed |-> <<>>]
  ELSE DrainRest(complete_one_flowlet(q, reply_rtt), reply_rtt)

\* MatchError measured from the begin of the flowlet only
MatchErrorFromBegin(fl, now, reply_rtt) ==
  IF now > fl.begin_time + reply_rtt
  THEN DurationSince(now, fl.begin_time) - reply_rtt
  ELSE DurationSince(fl.begin_time + reply_rtt, now)

\* the match error of flowlet fl for a reply at `now` (check_reply)
MatchError(fl, now, reply_rtt) ==
  IF now > fl.end_time + reply_rtt
  THEN DurationSince(now, fl.end_time) - reply_rtt
  ELSE DurationSince(fl.begin_time + reply_rtt, now)

ExactMatch(fl, now, reply_rtt) ==
  fl.begin_time + reply_rtt <= now /\ now <= fl.end_time + reply_rtt

RECURSIVE SearchFlowlet(_, _, _, _, _, _)
\* the search loop of check_reply from index i (1-based); min_err = -1 is Duration::MAX
SearchFlowlet(fls, now, reply_rtt, i, best, min_err) ==
  IF i > Len(fls) THEN best
  ELSE IF ExactMatch(fls[i], now, reply_rtt) THEN i
  ELSE LET e == MatchError(fls[i], now, reply_rtt)
       IN IF min_err = -1 \/ e < min_err
          THEN SearchFlowlet(fls, now, reply_rtt, i + 1, i, e)
          ELSE SearchFlowlet(fls, now, reply_rtt, i + 1, best, min_err)

\* the flowlet (1-based) check_reply appends the reply to when several are present
replyed_flowlet(q, now, reply_rtt) == SearchFlowlet(q.flowlets, now, reply_rtt, 1, 1, -1)

\* TooEarly without looking at the replies flowlets[0] already has
TooEarlyAnyway(q, now, reply_rtt) ==
  now < q.flowlets[1].begin_time + reply_rtt - (flowlet_end_timeout(q, reply_rtt) - reply_rtt)

TooEarly(q, now, reply_rtt) ==
  /\ now < q.flowlets[1].begin_time + reply_rtt - (flowlet_end_timeout(q, reply_rtt) - reply_rtt)
  /\ q.flowlets[1].reply_pkt_nums = <<>>

\* TooLate measured from the end of flowlets[0]
TooLateForHead(q, now, reply_rtt) ==
  now > q.flowlets[1].end_time + reply_rtt + (flowlet_end_timeout(q, reply_rtt) - reply_rtt)

TooLate(q, now, reply_rtt) ==
  now > Last(q.flowlets).end_time + reply_rtt + (flowlet_end_timeout(q, reply_rtt) - reply_rtt)

\* the flowlets after check_reply gave the reply to flowlet t (1-based): the ones
\* before it are complete, and a single flowlet over FLOWLET_MAX_PKTS is too
MarkReplied(fls, t, now, pkt_num) ==
  [k \in 1..Len(fls) |->
     IF k = t
     THEN [add_reply(fls[k], now, pkt_num) EXCEPT
             !.complete = IF Len(fls) = 1 /\ Len(fls[k].pkt_nums) > FLOWLET_MAX_PKTS
                          THEN TRUE ELSE @]
     ELSE IF k < t THEN [fls[k] EXCEPT !.complete = TRUE]
     ELSE fls[k]]

Accepted(d) == [q |-> d.q, accepted |-> TRUE, samples |-> d.samples, removed |-> d.removed]

\* check_reply once reply_nums is counted
CheckReplyCounted(q, now, pkt_num, reply_rtt) ==
  IF q.flowlets = <<>> \/ TooEarly(q, now, reply_rtt) \/ TooLate(q, now, reply_rtt)
  THEN [q |-> q, accepted |-> FALSE, samples |-> <<>>, removed |-> <<>>]
  ELSE Accepted(DrainComplete(
         [q EXCEPT !.flowlets =
            MarkReplied(q.flowlets,
                        IF Len(q.flowlets) = 1 THEN 1 ELSE replyed_flowlet(q, now, reply_rtt),
                        now, pkt_num)],
         reply_rtt))

\* PacketQueue::check_reply; the result is [q, accepted, samples, removed]
check_reply(q0, now, pkt_num, reply_rtt) ==
  CheckReplyCounted([q0 EXCEPT !.reply_nums = @ + 1], now, pkt_num, reply_rtt)

RECURSIVE on_timeout(_, _, _)
TimeoutRest(r, now, reply_rtt) == Joined(r, on_timeout(r.q, now, reply_rtt))

\* PacketQueue::on_timeout; the result is [q, samples, removed]
on_timeout(q, now, reply_rtt) ==
  IF q.abort \/ q.flowlets = <<>>
     \/ ~(now > q.flowlets[1].end_time + flowlet_end_timeout(q, reply_rtt))
  THEN [q |-> q, samples |-> <<>>, removed |-> <<>>]
  ELSE TimeoutRest(complete_one_flowlet([q EXCEPT !.flowlets[1].complete = TRUE], reply_rtt),
                   now, reply_rtt)

\* PacketQueue::timeout
queue_timeout(q, now, reply_rtt) ==
  IF q.flowlets = <<>> THEN <<>>
  ELSE <<DurationSince(q.flowlets[1].end_time + flowlet_end_timeout(q, reply_rtt), now)>>

RECURSIVE reset_due_to_rtt_deviation(_)
reset_due_to_rtt_deviation(q) ==
  IF q.abort \/ q.flowlets = <<>> \/ q.flowlets[1].reply_pkt_times = <<>> THEN q
  ELSE LET nums == q.flowlets[1].pkt_nums
           ok == Len(q.packets) >= Len(nums)
                 /\ \A k \in 1..Len(nums) : q.packets[k].number = nums[k]
       IN IF ~ok THEN [q EXCEPT !.abort = TRUE]
          ELSE reset_due_to_rtt_deviation(
                 [q EXCEPT !.flowlets = Tail(@),
                           !.packets = SubSeq(@, Len(nums) + 1, Len(@))])

\* Task::from_queue (retrans.rs); the result is [q, task]: task is an Option of
\* the record [src, dst, retrans_queue]
\* TaskFromQueue copying detected_loss instead of taking it
TaskFromQueueCopied(q, src, dst, direction_protect, overspeed) ==
  IF ~have_retransmit(q) THEN [q |-> q, task |-> <<>>]
  ELSE [q |-> q,
        task |-> IF ~direction_protect \/ overspeed THEN <<>>
                 ELSE <<[src |-> src, dst |-> dst, retrans_queue |-> q.detected_loss]>>]

TaskGateIgnoresOverspeed(direction_protect, overspeed) == direction_protect

\* the task is kept: !(!direction_protect || overspeed)
TaskGateOpen(direction_protect, overspeed) == direction_protect /\ ~overspeed

TaskFromQueue(q, src, dst, direction_protect, overspeed) ==
  IF ~have_retransmit(q) THEN [q |-> q, task |-> <<>>]
  ELSE [q |-> [q EXCEPT !.detected_loss = <<>>],
        task |-> IF ~TaskGateOpen(direction_protect, overspeed) THEN <<>>
                 ELSE <<[src |-> src, dst |-> dst, retrans_queue |-> q.detected_loss]>>]

\* Conn::to_client_retrans_task over the fields of the Conn it reads
\* to_client_retrans_task that leaves the losses in the queue while the gate is closed
retrans_task_when_open(to_client_queue, server_addr, client_addr, dominant_direction, overspeed) ==
  IF TaskGateOpen(dominant_direction = "ToClient", overspeed)
  THEN TaskFromQueue(to_client_queue, server_addr, client_addr, TRUE, FALSE)
  ELSE [q |-> to_client_queue, task |-> <<>>]

to_client_retrans_task(to_client_queue, server_addr, client_addr, dominant_direction, overspeed) ==
  TaskFromQueue(to_client_queue, server_addr, client_addr,
                dominant_direction = "ToClient", overspeed)

(***************************************************************************)
(* ConnId (conn.rs).  A SocketAddr is the record [ip, port] (main.rs reads *)
(* IPv4 addresses only); its derived order compares ip, then port.         *)
(***************************************************************************)
AddrLess(a, b) == a.ip < b.ip \/ (a.ip = b.ip /\ a.port < b.port)

ConnIdUnordered(addr1, addr2) == [addr1 |-> addr1, addr2 |-> addr2]

\* ConnId::new
ConnIdNew(addr1, addr2) ==
  IF AddrLess(addr1, addr2)
  THEN [addr1 |-> addr1, addr2 |-> addr2]
  ELSE [addr1 |-> addr2, addr2 |-> addr1]

(***************************************************************************)
(* Stats and the retransmission rate limit (lib.rs)                        *)
(***************************************************************************)
StatsNew == [pkts |-> 0, retrans_pkts |-> 0]

new_pkt(st) == [st EXCEPT !.pkts = @ + 1]

new_retrans_pkt(st) == [st EXCEPT !.retrans_pkts = @ + 1]

\* retrans_pkts as f64 / pkts as f64 > 0.1
match_retrans_limit(st) == 10 * st.retrans_pkts > st.pkts

RetransNeverSkipped(st) == FALSE

\* process_retrans_task skips (drops) a packet of the task
RetransSkipped(st) == match_retrans_limit(st) /\ st.pkts > RETRANS_LIMIT_AFTER

RECURSIVE RetransCount(_, _, _)
\* the loop of process_retrans_task over a task of n packets, as far as Stats goes:
\* the result is [stats, sent, skipped]
RetransCount(r, n, k) ==
  IF k > n THEN r
  ELSE IF RetransSkipped(r.stats)
       THEN RetransCount([r EXCEPT !.skipped = @ + 1], n, k + 1)
       ELSE RetransCount([r EXCEPT !.stats = new_retrans_pkt(@), !.sent = @ + 1], n, k + 1)

(***************************************************************************)
(* Minmax: crate::minmax is not among the sources; cc.rs uses it as a      *)
(* windowed minimum over timestamped samples.  A filter is the sequence of *)
(* the samples [time, value] that can still be the minimum: values         *)
(* increase from the front, which is the running minimum.                  *)
(***************************************************************************)
MinmaxNew == <<>>

MinmaxKeeps(s, win, time, meas) == s.time >= time - win /\ s.value < meas

\* Minmax::running_min(win, time, meas): the filter after the sample
running_min(f, win, time, meas) ==
  Append(SelectSeq(f, LAMBDA s : MinmaxKeeps(s, win, time, meas)),
         [time |-> time, value |-> meas])

\* the value running_min returns
MinmaxEstimate(f) == f[1].value

(***************************************************************************)
(* Copa (cc.rs).  cwnd is held in units of 1 / CwndUnit; the comparisons   *)
(* of rates are cross-multiplied.                                          *)
(***************************************************************************)
MIN_RTT_WINDOW == 10000000
MIN_STANDING_WINDOW == 10000
V_MAX == 32
DELTA_RECIPROCAL == 2
INIT_CWND == 10
CwndUnit == 100

CopaNew(now) ==
  [rtt_min_filter |-> MinmaxNew, rtt_standing_filter |-> MinmaxNew,
   cwnd |-> INIT_CWND * CwndUnit, cwnd_change |-> now,
   v |-> 1, direction |-> "Up", direction_change |-> now,
   cwnd_last_direction_change |-> INIT_CWND * CwndUnit,
   slow_start |-> TRUE, cwnd_used |-> <<>>, abort |-> FALSE]

\* UsedWindow::on_data_send: the record after the push and the pops
UsedWindowSend(packet_record, win, now) ==
  SelectSeq(Append(packet_record, now), LAMBDA t : t >= now - win)

\* rate_recent > rate_target: recent_sent / client_rtt > cwnd / rtt_min
RateAbove(recent_sent, client_rtt, cwnd, rtt_min) ==
  cwnd <= (recent_sent * CwndUnit * rtt_min - 1) \div client_rtt

DataSent(cc, client_rtt) ==
  [cc |-> cc,
   overspeed |-> RateAbove(Len(cc.cwnd_used), client_rtt, cc.cwnd,
                           MinmaxEstimate(cc.rtt_min_filter))]

\* Copa::on_data_send; the result is [cc, overspeed]
on_data_send(cc, now, client_rtt) ==
  DataSent([cc EXCEPT !.cwnd_used = UsedWindowSend(@, client_rtt, now),
                      !.rtt_min_filter = running_min(@, MIN_RTT_WINDOW, now, client_rtt)],
           client_rtt)

\* lambda <= lambda_t: cwnd / rtt_standing <= delta_reciprocal / dq
LambdaLeq(cwnd, rtt_min, rtt_standing) ==
  \/ rtt_standing = rtt_min
  \/ cwnd <= (DELTA_RECIPROCAL * CwndUnit * rtt_standing) \div (rtt_standing - rtt_min)

\* Copa::cwnd_update
cwnd_update(cc, up, now, client_rtt) ==
  [cc EXCEPT
     !.cwnd_change = now,
     !.cwnd = IF up
              THEN @ + MulF(DurationSince(now, cc.cwnd_change),
                            cc.v * DELTA_RECIPROCAL * CwndUnit, client_rtt)
              ELSE Max2(INIT_CWND * CwndUnit,
                        @ - MulF(DurationSince(now, cc.cwnd_change),
                                 cc.v * DELTA_RECIPROCAL * CwndUnit, client_rtt))]

\* Copa::cwnd_update_slow_start
cwnd_update_slow_start(cc, up, now, client_rtt) ==
  IF up
  THEN [cc EXCEPT
          !.cwnd = IF DurationSince(now, cc.cwnd_change) >= client_rtt THEN 2 * @
                   ELSE @ + MulF(@, DurationSince(now, cc.cwnd_change), client_rtt),
          !.cwnd_change = now]
  ELSE [cc EXCEPT !.cwnd = @ \div 2, !.slow_start = FALSE]

\* the "update v" part of on_ack_send
Turned(cc, direction, now) ==
  [cc EXCEPT !.direction = direction,
             !.v = IF direction = cc.direction THEN Min2(2 * @, V_MAX) ELSE 1,
             !.cwnd_last_direction_change = cc.cwnd,
             !.direction_change = now]

UpdateV(cc, client_rtt, now) ==
  IF DurationSince(now, cc.direction_change) > client_rtt
  THEN Turned(cc, IF cc.cwnd >= cc.cwnd_last_direction_change THEN "Up" ELSE "Down", now)
  ELSE cc

CwndUpdated(cc, up, now, client_rtt) ==
  IF cc.slow_start THEN cwnd_update_slow_start(cc, up, now, client_rtt)
  ELSE cwnd_update(cc, up, now, client_rtt)

\* on_ack_send once both filters have the sample; rtt_standing - rtt_min panics
\* when negative
AckSent(cc, client_rtt, now) ==
  IF MinmaxEstimate(cc.rtt_standing_filter) < MinmaxEstimate(cc.rtt_min_filter)
  THEN [cc EXCEPT !.abort = TRUE]
  ELSE UpdateV(CwndUpdated(cc, LambdaLeq(cc.cwnd, MinmaxEstimate(cc.rtt_min_filter),
                                         MinmaxEstimate(cc.rtt_standing_filter)),
                           now, client_rtt),
               client_rtt, now)

\* Copa::on_ack_send
on_ack_send(cc, client_rtt, now) ==
  AckSent([cc EXCEPT
             !.rtt_min_filter = running_min(@, MIN_RTT_WINDOW, now, client_rtt),
             !.rtt_standing_filter =
                running_min(@, Max2(client_rtt \div 2, MIN_STANDING_WINDOW), now, client_rtt)],
          client_rtt, now)

\* Copa::reset_rtt_filters
reset_rtt_filters(cc) ==
  [cc EXCEPT !.rtt_min_filter = MinmaxNew, !.rtt_standing_filter = MinmaxNew]

(***************************************************************************)
(* QUIC header parsing (quic_parse.rs).  A datagram is                     *)
(* [id, src, dst, parts, size]: id numbers the datagrams by arrival, size  *)
(* is buf.len(), and parts are the QUIC packets coalesced in it, each the  *)
(* outcome Header::from_bytes(b, 0) and b.skip(hdr.length) have on it:     *)
(*   "Initial", "ZeroRTT", "Handshake": a long header with its payload;    *)
(*   "Retry", "VersionNegotiation": long headers that take the rest;       *)
(*   "InitialCut", "HandshakeCut": the length field runs past the end;     *)
(*   "Short": a first byte without the form bit;                           *)
(*   "Truncated": a long header that ends before its fields do;            *)
(*   "LongCid": a version 1 long header with a cid length above 20.        *)
(* Bytes after the last part are UDP padding.                              *)
(***************************************************************************)
\* Header::from_bytes(b, 0): an error, "Panic", or "Ok"
HeaderFromBytes(part) ==
  CASE part = "Short" -> "InvalidState"
    [] part = "Truncated" -> "BufferTooShort"
    [] part = "LongCid" -> "Panic"
    [] OTHER -> "Ok"

\* hdr.ty
HeaderType(part) ==
  CASE part = "InitialCut" -> "Initial"
    [] part = "HandshakeCut" -> "Handshake"
    [] OTHER -> part

\* b.skip(hdr.length) fails
SkipFails(part) == part \in {"InitialCut", "HandshakeCut"}

\* the coalesced packets left after `read` bytes
PartsLeft(parts) ==
  IF Head(parts) \in {"Retry", "VersionNegotiation"} THEN <<>> ELSE Tail(parts)

(***************************************************************************)
(* Conn (conn.rs).  sent and new_flowlet are not fields of the program:    *)
(* sent lists the datagrams the Conn hands to send_transparently while one *)
(* event is handled, new_flowlet is the value process_udp_packet returns.  *)
(***************************************************************************)
ConnNew(now, src, dst) ==
  [state |-> "Initialed", last_access |-> now, begin_time |-> now,
   client_addr |-> src, server_addr |-> dst,
   client_rtt |-> 0, server_rtt |-> 0,
   to_server_queue |-> PacketQueueNew(now, 4, 4), to_server_pkt_num |-> 0,
   to_client_queue |-> PacketQueueNew(now, 4, 4),
   min_pkt_size |-> -1, dominant_direction |-> "None", last_dominant_check |-> now,
   server_bytes |-> 0, client_bytes |-> 0,
   cc |-> CopaNew(now), overspeed |-> FALSE, overspeed_begin |-> <<>>,
   delayed_ack_queue |-> <<>>, last_rtt_calibration |-> now,
   abort |-> FALSE, sent |-> <<>>, new_flowlet |-> FALSE]

\* Conn::set_factors
set_factors(c, flowlet_interval_factor, flowlet_end_factor) ==
  [c EXCEPT !.to_server_queue.flowlet_interval_factor = flowlet_interval_factor,
            !.to_server_queue.flowlet_end_factor = flowlet_end_factor,
            !.to_client_queue.flowlet_interval_factor = flowlet_interval_factor,
            !.to_client_queue.flowlet_end_factor = flowlet_end_factor]

\* the Conn has panicked
ConnAborted(c) ==
  c.abort \/ c.cc.abort \/ c.to_server_queue.abort \/ c.to_client_queue.abort

is_from_client(c, src) == src = c.client_addr

is_handshaked(c) == c.state = "Handshaked"

is_idle_always(c, now) == TRUE

\* Conn::is_idle
is_idle(c, now) == DurationSince(now, c.last_access) >= IDLE_TIMEOUT

\* one datagram handed to pemi_io::send_transparently
Datagram(site, id, src, dst) == [site |-> site, id |-> id, src |-> src, dst |-> dst]

\* smoothed_rtt = 7/8 * smoothed_rtt + 1/8 * sample_rtt
SmoothedRtt(client_rtt, value) ==
  IF client_rtt = 0 THEN value ELSE MulF(client_rtt, 7, 8) + MulF(value, 1, 8)

\* Conn::update_client_rtt
update_client_rtt(c, value, now) ==
  [c EXCEPT !.client_rtt = SmoothedRtt(c.client_rtt, value),
            !.cc = on_ack_send(@, SmoothedRtt(c.client_rtt, value), now)]

\* Conn::update_server_rtt
update_server_rtt(c, value) == [c EXCEPT !.server_rtt = value]

\* the "check every RTT" part of measure_dominant_direction
DominantChecked(c, recv_ts) ==
  IF DurationSince(recv_ts, c.last_dominant_check) >= c.client_rtt + c.server_rtt
  THEN [c EXCEPT
          !.dominant_direction =
             IF c.client_bytes * 2 < c.server_bytes THEN "ToClient"
             ELSE IF c.server_bytes * 2 < c.client_bytes THEN "ToServer"
             ELSE @,
          !.last_dominant_check = recv_ts,
          !.server_bytes = 0, !.client_bytes = 0]
  ELSE c

\* Conn::measure_dominant_direction; min_pkt_size = -1 is usize::MAX
measure_dominant_direction(c, recv_ts, from, pkt_size) ==
  DominantChecked(
    IF c.min_pkt_size = -1 \/ pkt_size < c.min_pkt_size
    THEN [c EXCEPT !.min_pkt_size = pkt_size]
    ELSE IF from = "client"
         THEN [c EXCEPT !.client_bytes = @ + (pkt_size - c.min_pkt_size)]
         ELSE [c EXCEPT !.server_bytes = @ + (pkt_size - c.min_pkt_size)],
    recv_ts)

\* the order in which a queue of delayed ACKs is sent when overspeed has ended
FlushOrderReversed(acks) == [k \in 1..Len(acks) |-> acks[Len(acks) + 1 - k]]

FlushOrder(acks) == acks

\* the order in which a queue of delayed ACKs is sent when a threshold is met
ReleaseOrderFifo(acks) == acks

ReleaseOrder(acks) == <<Last(acks)>> \o SubSeq(acks, 1, Len(acks) - 1)

\* overspeed has lasted more than one end-to-end RTT
Aggressive(c, now) ==
  DurationSince(now, c.overspeed_begin[1]) > c.delayed_ack_queue[1].e2e_rtt

\* the packet number threshold alone
ReleaseDueByCount(c, now) ==
  Len(c.delayed_ack_queue) >
    (IF Aggressive(c, now) THEN DELAY_kPacketThreshold * 2 ELSE DELAY_kPacketThreshold)

\* the packet number or the delay time threshold of check_delayed_acks is met
ReleaseDue(c, now) ==
  \/ Len(c.delayed_ack_queue) >
       (IF Aggressive(c, now) THEN DELAY_kPacketThreshold * 2 ELSE DELAY_kPacketThreshold)
  \/ DurationSince(now, c.delayed_ack_queue[1].forward_ts) >
       Max2(IF Aggressive(c, now) THEN MulF(c.delayed_ack_queue[1].e2e_rtt, 5, 4)
            ELSE MulF(c.delayed_ack_queue[1].e2e_rtt, 9, 8),
            DELAY_kGranularity)

\* the delayed ACKs leave in this order, from the client to the server
AcksSent(c, site, acks) ==
  [c EXCEPT
     !.sent = @ \o [k \in 1..Len(acks) |->
                      Datagram(site, acks[k].payload, c.client_addr, c.server_addr)],
     !.delayed_ack_queue = <<>>]

\* check_delayed_acks leaving the queue alone when overspeed is false
check_delayed_acks_unflushed(c, now) ==
  IF ConnAborted(c) \/ c.delayed_ack_queue = <<>> \/ ~c.overspeed THEN c
  ELSE IF Len(c.delayed_ack_queue) < 2 THEN c
  ELSE IF c.overspeed_begin = <<>> THEN [c EXCEPT !.abort = TRUE]
  ELSE IF ReleaseDue(c, now) THEN AcksSent(c, "reorder", ReleaseOrder(c.delayed_ack_queue))
  ELSE c

\* Conn::check_delayed_acks
check_delayed_acks(c, now) ==
  IF ConnAborted(c) \/ c.delayed_ack_queue = <<>> THEN c
  ELSE IF ~c.overspeed THEN AcksSent(c, "flush", FlushOrder(c.delayed_ack_queue))
  ELSE IF Len(c.delayed_ack_queue) < 2 THEN c
  ELSE IF c.overspeed_begin = <<>> THEN [c EXCEPT !.abort = TRUE]
  ELSE IF ReleaseDue(c, now) THEN AcksSent(c, "reorder", ReleaseOrder(c.delayed_ack_queue))
  ELSE c

\* need_reorder_ack without the tests of the source and of the handshake
need_reorder_ack_overspeed(c, src) == c.overspeed

\* Conn::need_reorder_ack
need_reorder_ack(c, src) == c.overspeed /\ is_from_client(c, src) /\ is_handshaked(c)

\* Conn::add_delayed_ack
add_delayed_ack(c, forward_ts, payload) ==
  check_delayed_acks(
    [c EXCEPT !.delayed_ack_queue =
       Append(@, [forward_ts |-> forward_ts, payload |-> payload,
                  e2e_rtt |-> c.client_rtt + c.server_rtt])],
    forward_ts)

RECURSIVE FeedSamples(_, _, _)
\* for rtt_sample in samples { update_client_rtt(rtt_sample, now) }
FeedSamples(c, samples, now) ==
  IF samples = <<>> \/ ConnAborted(c) THEN c
  ELSE FeedSamples(update_client_rtt(c, Head(samples), now), Tail(samples), now)

\* the first client RTT: recv_ts - to_client_queue.oldest_ts().unwrap()
FirstClientRtt(c, recv_ts) ==
  IF c.client_rtt = 0 /\ c.server_rtt # 0
  THEN IF oldest_ts(c.to_client_queue) = <<>> THEN [c EXCEPT !.abort = TRUE]
       ELSE update_client_rtt(c, DurationSince(recv_ts, oldest_ts(c.to_client_queue)[1]),
                              recv_ts)
  ELSE c

\* the first server RTT: recv_ts - to_server_queue.oldest_ts().unwrap()
FirstServerRtt(c, recv_ts) ==
  IF c.server_rtt = 0
  THEN IF oldest_ts(c.to_server_queue) = <<>> THEN [c EXCEPT !.abort = TRUE]
       ELSE update_server_rtt(c, DurationSince(recv_ts, oldest_ts(c.to_server_queue)[1]))
  ELSE c

\* a client packet is queued only while the server RTT is not measured
ToServerQueued(c, recv_ts, payload) ==
  IF c.server_rtt = 0 /\ ~ConnAborted(c)
  THEN [c EXCEPT !.to_server_queue =
          PacketQueueAdd(@, recv_ts, <<payload>>, c.server_rtt).q]
  ELSE c

Replied(c, r, recv_ts) ==
  FeedSamples([c EXCEPT !.to_client_queue = r.q], r.samples, recv_ts)

\* a client packet is the reply to the packets to the client
ClientReplied(c, recv_ts) ==
  IF ConnAborted(c) THEN c
  ELSE Replied([c EXCEPT !.to_server_pkt_num = @ + 1],
               check_reply(c.to_client_queue, recv_ts, c.to_server_pkt_num + 1, c.client_rtt),
               recv_ts)

Sped(c, r, recv_ts) ==
  [c EXCEPT !.cc = r.cc, !.overspeed = r.overspeed,
            !.overspeed_begin = IF r.overspeed
                                THEN IF @ = <<>> THEN <<recv_ts>> ELSE @
                                ELSE <<>>]

\* CC: on data send
DataSpeed(c, recv_ts) ==
  IF c.client_rtt # 0 /\ ~ConnAborted(c)
  THEN Sped(c, on_data_send(c.cc, recv_ts, c.client_rtt), recv_ts)
  ELSE c

ClientQueued(c, r) == [c EXCEPT !.to_client_queue = r.q, !.new_flowlet = r.new_flowlet]

\* a server packet is added to the to_client queue
ToClientQueued(c, recv_ts, payload) ==
  IF ConnAborted(c) THEN c
  ELSE ClientQueued(c, PacketQueueAdd(c.to_client_queue, recv_ts, <<payload>>, c.client_rtt))

\* Conn::process_udp_packet; d is the datagram
process_udp_packet(c, recv_ts, d) ==
  IF is_from_client(c, d.src)
  THEN check_delayed_acks(
         ClientReplied(
           ToServerQueued(
             measure_dominant_direction(FirstClientRtt(c, recv_ts), recv_ts, "client", d.size),
             recv_ts, d.id),
           recv_ts),
         recv_ts)
  ELSE check_delayed_acks(
         ToClientQueued(
           DataSpeed(
             measure_dominant_direction(FirstServerRtt(c, recv_ts), recv_ts, "server", d.size),
             recv_ts),
           recv_ts, d.id),
         recv_ts)

\* a reset that drops every flowlet and packet of to_client_queue
CalibratedDropsAll(c, calibration_rtt_sample) ==
  [c EXCEPT !.to_client_queue = [@ EXCEPT !.flowlets = <<>>, !.packets = <<>>],
            !.client_rtt = calibration_rtt_sample]

\* the reset of rtt_calibration
Calibrated(c, calibration_rtt_sample) ==
  [c EXCEPT !.to_client_queue = reset_due_to_rtt_deviation(@),
            !.cc = IF c.client_rtt < calibration_rtt_sample THEN reset_rtt_filters(@) ELSE @,
            !.client_rtt = calibration_rtt_sample]

\* Conn::rtt_calibration
rtt_calibration(c, calibration_rtt_sample, now_ts) ==
  IF DurationSince(now_ts, c.last_rtt_calibration) >= calibration_rtt_sample + c.server_rtt
  THEN IF Abs(calibration_rtt_sample - c.client_rtt) >
            MulF(flowlet_timeout(c.to_client_queue), c.to_client_queue.flowlet_end_factor, 2)
       THEN Calibrated([c EXCEPT !.last_rtt_calibration = now_ts], calibration_rtt_sample)
       ELSE [c EXCEPT !.last_rtt_calibration = now_ts]
  ELSE c

\* Conn::record_retrans_packet
record_retrans_packet(c, forward_ts, src) ==
  IF is_from_client(c, src) THEN [c EXCEPT !.abort = TRUE]
  ELSE [c EXCEPT !.to_client_queue = PacketQueueAdd(@, forward_ts, <<>>, c.client_rtt).q]

\* Conn::timeout without the test of client_rtt
conn_timeout_unmeasured(c, now) == queue_timeout(c.to_client_queue, now, c.client_rtt)

\* Conn::timeout
conn_timeout(c, now) ==
  IF c.client_rtt = 0 THEN <<>> ELSE queue_timeout(c.to_client_queue, now, c.client_rtt)

TimedOut(c, r, now) == FeedSamples([c EXCEPT !.to_client_queue = r.q], r.samples, now)

\* Conn::on_timeout
conn_on_timeout(c, now) == TimedOut(c, on_timeout(c.to_client_queue, now, c.client_rtt), now)

Tasked(c, r) == [c |-> [c EXCEPT !.to_client_queue = r.q], task |-> r.task]

\* Conn::to_client_retrans_task on the Conn; the result is [c, task]
conn_retrans_task(c) ==
  Tasked(c, to_client_retrans_task(c.to_client_queue, c.server_addr, c.client_addr,
                                   c.dominant_direction, c.overspeed))

\* Conn::first_quic_packet on the first coalesced packet: an error, "Panic", or "Ok"
first_quic_packet(part) ==
  IF HeaderFromBytes(part) # "Ok" THEN HeaderFromBytes(part)
  ELSE IF HeaderType(part) # "Initial" THEN "MayNotQUIC"
  ELSE IF SkipFails(part) THEN "BufferTooShort"
  ELSE "Ok"

\* process_quic_packet without the assertion on the source of a Handshake packet
process_quic_packet_any_source(c, now, part, src) ==
  IF is_handshaked(c)
  THEN [c |-> [c EXCEPT !.last_access = now], res |-> "Ok", all |-> TRUE]
  ELSE IF HeaderFromBytes(part) # "Ok"
  THEN [c |-> [c EXCEPT !.last_access = now], res |-> HeaderFromBytes(part), all |-> FALSE]
  ELSE [c |-> [c EXCEPT !.last_access = now,
                        !.state = IF HeaderType(part) = "Handshake" THEN "Handshaked" ELSE @],
        res |-> IF SkipFails(part) THEN "BufferTooShort" ELSE "Ok",
        all |-> FALSE]

\* Conn::process_quic_packet on one coalesced packet; the result is [c, res, all]:
\* res is an error, "Panic", or "Ok", and all says that `read` is the whole rest
process_quic_packet(c, now, part, src) ==
  IF is_handshaked(c)
  THEN [c |-> [c EXCEPT !.last_access = now], res |-> "Ok", all |-> TRUE]
  ELSE IF HeaderFromBytes(part) # "Ok"
  THEN [c |-> [c EXCEPT !.last_access = now], res |-> HeaderFromBytes(part), all |-> FALSE]
  ELSE IF HeaderType(part) = "Handshake" /\ is_from_client(c, src)
  THEN [c |-> [c EXCEPT !.last_access = now, !.abort = TRUE], res |-> "Panic", all |-> FALSE]
  ELSE [c |-> [c EXCEPT !.last_access = now,
                        !.state = IF HeaderType(part) = "Handshake" THEN "Handshaked" ELSE @],
        res |-> IF SkipFails(part) THEN "BufferTooShort" ELSE "Ok",
        all |-> FALSE]

(***************************************************************************)
(* PEMI (lib.rs).  conns is a function over the ConnIds present and        *)
(* access_times the set of the AccessTime entries <<time, conn id>> of the *)
(* heap.  probes is rtt_detector.sent_requests, io lists the datagrams     *)
(* handed to send_transparently while one event is handled, and exit says  *)
(* how the program has ended: process_packet returned an Err, or a panic.  *)
(***************************************************************************)
PEMINew ==
  [conns |-> <<>>, access_times |-> {}, stats |-> StatsNew, retrans_tasks |-> <<>>,
   flowlet_interval_factor |-> 4, flowlet_end_factor |-> 4,
   proxy_only |-> FALSE, probes |-> <<>>, io |-> <<>>, exit |-> "running"]

\* PEMI::set_proxy_only
set_proxy_only(p, proxy_only) == [p EXCEPT !.proxy_only = proxy_only]

\* PEMI::set_factors
pemi_set_factors(p, flowlet_interval_factor, flowlet_end_factor) ==
  [p EXCEPT !.flowlet_interval_factor = flowlet_interval_factor,
            !.flowlet_end_factor = flowlet_end_factor]

\* conns.insert(conn_id, conn)
ConnsWith(conns, conn_id, c) ==
  [k \in DOMAIN conns \cup {conn_id} |-> IF k = conn_id THEN c ELSE conns[k]]

\* conns.remove(conn_id)
ConnsWithout(conns, conn_id) == [k \in DOMAIN conns \ {conn_id} |-> conns[k]]

\* PEMI::new_conn
new_conn(p, conn_id, c, now) ==
  [p EXCEPT !.conns = ConnsWith(@, conn_id,
                                set_factors(c, p.flowlet_interval_factor, p.flowlet_end_factor)),
            !.access_times = @ \cup {<<now, conn_id>>}]

\* access_times.peek(): an entry with the oldest time.  Which of several entries with
\* the same time the heap holds on top makes no difference to remove_idle_conns, which
\* goes on until the top is younger than IDLE_TIMEOUT, nor to timeout.
HeapPeek(access_times) ==
  CHOOSE e \in access_times : \A o \in access_times : e[1] <= o[1]

RECURSIVE remove_idle_conns(_, _)
\* one round of the loop of remove_idle_conns, top being the peeked entry
IdleRound(p, now, top) ==
  IF DurationSince(now, top[1]) >= IDLE_TIMEOUT
  THEN IF top[2] \notin DOMAIN p.conns THEN [p EXCEPT !.exit = "panic"]
       ELSE IF is_idle(p.conns[top[2]], now)
       THEN remove_idle_conns([p EXCEPT !.conns = ConnsWithout(@, top[2]),
                                        !.access_times = @ \ {top}], now)
       ELSE remove_idle_conns([p EXCEPT !.access_times = (@ \ {top}) \cup {<<now, top[2]>>}],
                              now)
  ELSE p

\* PEMI::remove_idle_conns
remove_idle_conns(p, now) ==
  IF p.access_times = {} THEN p ELSE IdleRound(p, now, HeapPeek(p.access_times))

\* the reply timeouts of the connections that have one
ReplyTimeouts(p, now) ==
  {conn_timeout(p.conns[k], now)[1] :
     k \in {j \in DOMAIN p.conns : conn_timeout(p.conns[j], now) # <<>>}}

SetMin(S) == CHOOSE t \in S : \A o \in S : t <= o

SetMax(S) == CHOOSE t \in S : \A o \in S : t >= o

\* IDLE_TIMEOUT.saturating_sub(now.duration_since(t)) for the top of the heap
IdleTimer(p, now) ==
  IDLE_TIMEOUT - Min2(IDLE_TIMEOUT, DurationSince(now, HeapPeek(p.access_times)[1]))

\* the minimum of the two timers; no reply timeout is Duration::MAX
MinTimer(idle_timer, reply_timeouts) ==
  IF reply_timeouts = {} THEN idle_timer ELSE Min2(idle_timer, SetMin(reply_timeouts))

\* PEMI::timeout
pemi_timeout(p, now) ==
  IF p.access_times = {} THEN <<>>
  ELSE <<MinTimer(IdleTimer(p, now), ReplyTimeouts(p, now))>>

\* PEMI::quic_conn_process; the result is [p, res]
RECURSIVE quic_conn_process(_, _, _, _, _, _)
QuicPacketRead(p, r, parts, conn_id, now, src, dst) ==
  IF r.res # "Ok" \/ r.all
  THEN [p |-> [p EXCEPT !.conns[conn_id] = r.c], res |-> r.res]
  ELSE quic_conn_process([p EXCEPT !.conns[conn_id] = r.c], PartsLeft(parts),
                         conn_id, now, src, dst)

quic_conn_process(p, parts, conn_id, now, src, dst) ==
  IF parts = <<>> THEN [p |-> p, res |-> "Ok"]
  ELSE IF conn_id \notin DOMAIN p.conns
  THEN IF first_quic_packet(Head(parts)) # "Ok"
       THEN [p |-> p, res |-> first_quic_packet(Head(parts))]
       ELSE quic_conn_process(new_conn(p, conn_id, ConnNew(now, src, dst), now),
                              PartsLeft(parts), conn_id, now, src, dst)
  ELSE QuicPacketRead(p, process_quic_packet(p.conns[conn_id], now, Head(parts), src),
                      parts, conn_id, now, src, dst)

\* the Conn hands over what it sent and what process_udp_packet returned: an ICMP
\* request goes to the destination of a datagram that opened a flowlet
ConnDone(p, conn_id, c, d, now) ==
  [p EXCEPT !.conns[conn_id] = [c EXCEPT !.sent = <<>>, !.new_flowlet = FALSE],
            !.io = @ \o c.sent,
            !.probes = IF c.new_flowlet THEN Append(@, [ip |-> d.dst.ip, time |-> now]) ELSE @,
            !.exit = IF ConnAborted(c) THEN "panic" ELSE @]

\* if let Some(task) = conn.to_client_retrans_task() { retrans_tasks.push(task) }
TaskPushed(p, conn_id, r) ==
  [p EXCEPT !.conns[conn_id] = r.c, !.retrans_tasks = @ \o r.task]

TaskCollected(p, conn_id) ==
  IF p.exit # "running" THEN p
  ELSE TaskPushed(p, conn_id, conn_retrans_task(p.conns[conn_id]))

IdleRemoved(p, now) == IF p.exit # "running" THEN p ELSE remove_idle_conns(p, now)

\* the datagram is forwarded, or added to the delayed ACKs
Forwarded(c, d, recv_ts) ==
  IF need_reorder_ack(c, d.src) THEN add_delayed_ack(c, recv_ts, d.id)
  ELSE [c EXCEPT !.sent = Append(@, Datagram("forward", d.id, d.src, d.dst))]

\* process_packet handing the datagram to the connection without sending it
ConnProcessedUnsent(p, conn_id, d, recv_ts) ==
  ConnDone(p, conn_id, process_udp_packet(p.conns[conn_id], recv_ts, d), d, recv_ts)

\* process_packet on a datagram of a connection
ConnProcessed(p, conn_id, d, recv_ts) ==
  IF p.proxy_only
  THEN [p EXCEPT !.io = Append(@, Datagram("forward", d.id, d.src, d.dst))]
  ELSE ConnDone(p, conn_id,
                process_udp_packet(Forwarded(p.conns[conn_id], d, recv_ts), recv_ts, d),
                d, recv_ts)

\* process_packet once quic_conn_process has returned r
Classified(r, conn_id, d, recv_ts) ==
  IF r.res \in {"InvalidState", "MayNotQUIC"}
  THEN [r.p EXCEPT !.io = Append(@, Datagram("forward", d.id, d.src, d.dst))]
  ELSE IF r.res = "Panic" THEN [r.p EXCEPT !.exit = "panic"]
  ELSE IF r.res # "Ok" THEN [r.p EXCEPT !.exit = r.res]
  ELSE IF conn_id \notin DOMAIN r.p.conns THEN [r.p EXCEPT !.exit = "panic"]
  ELSE IdleRemoved(TaskCollected(ConnProcessed(r.p, conn_id, d, recv_ts), conn_id), recv_ts)

\* PEMI::process_packet
process_packet(p, d, recv_ts) ==
  Classified(quic_conn_process([p EXCEPT !.stats = new_pkt(@)], d.parts,
                               ConnIdNew(d.src, d.dst), recv_ts, d.src, d.dst),
             ConnIdNew(d.src, d.dst), d, recv_ts)

\* PEMI::rtt_calibration
pemi_rtt_calibration(p, calibration_rtt_sample, now) ==
  [p EXCEPT !.conns = [k \in DOMAIN @ |-> rtt_calibration(@[k], calibration_rtt_sample, now)]]

\* the loop of process_timeout on one connection; the result is [c, task]
ConnTimeout(c, now) ==
  conn_retrans_task(IF conn_timeout(c, now) = <<0>> THEN conn_on_timeout(c, now) ELSE c)

RECURSIVE TasksOf(_, _)
TasksFrom(rs, ids, k) == rs[k].task \o TasksOf(rs, ids \ {k})

\* the tasks pushed by the loop of process_timeout over the connections ids.  The
\* order in which a HashMap yields its entries is not specified; the connections are
\* handled independently of each other.
TasksOf(rs, ids) ==
  IF ids = {} THEN <<>> ELSE TasksFrom(rs, ids, CHOOSE k \in ids : TRUE)

TimeoutsDone(p, rs) ==
  [p EXCEPT !.conns = [k \in DOMAIN rs |-> rs[k].c],
            !.retrans_tasks = @ \o TasksOf(rs, DOMAIN rs),
            !.exit = IF \E k \in DOMAIN rs : ConnAborted(rs[k].c) THEN "panic" ELSE @]

TimeoutConns(p, now) ==
  IF p.exit # "running" THEN p
  ELSE TimeoutsDone(p, [k \in DOMAIN p.conns |-> ConnTimeout(p.conns[k], now)])

\* PEMI::process_timeout
process_timeout(p, now) == TimeoutConns(remove_idle_conns(p, now), now)

\* PEMI::record_retrans_packet
pemi_record_retrans_packet(p, srcaddr, dstaddr, now) ==
  IF ConnIdNew(srcaddr, dstaddr) \notin DOMAIN p.conns THEN [p EXCEPT !.exit = "panic"]
  ELSE [p EXCEPT !.conns[ConnIdNew(srcaddr, dstaddr)] = record_retrans_packet(@, now, srcaddr)]

RetransRecorded(p, conn_id) ==
  IF p.exit = "running" /\ ConnAborted(p.conns[conn_id]) THEN [p EXCEPT !.exit = "panic"] ELSE p

RECURSIVE process_retrans_task(_, _, _, _, _)
\* PEMI::process_retrans_task on the packets of a task from src to dst
process_retrans_task(p, src, dst, retrans_queue, now) ==
  IF retrans_queue = <<>> \/ p.exit # "running" THEN p
  ELSE IF RetransSkipped(p.stats)
  THEN process_retrans_task(p, src, dst, Tail(retrans_queue), now)
  ELSE process_retrans_task(
         RetransRecorded(
           pemi_record_retrans_packet(
             [p EXCEPT !.io = Append(@, Datagram("retrans", Head(retrans_queue).payload, src, dst)),
                       !.stats = new_retrans_pkt(@)],
             src, dst, now),
           ConnIdNew(src, dst)),
         src, dst, Tail(retrans_queue), now)

RECURSIVE DrainTasks(_, _)
\* while let Some(task) = pemi.pop_retrans_task() { process_retrans_task(task) } (main.rs)
DrainTasks(p, now) ==
  IF p.retrans_tasks = <<>> \/ p.exit # "running" THEN p
  ELSE DrainTasks(
         process_retrans_task(
           [p EXCEPT !.retrans_tasks = SubSeq(@, 1, Len(@) - 1)],
           Last(p.retrans_tasks).src, Last(p.retrans_tasks).dst,
           Last(p.retrans_tasks).retrans_queue, now),
         now)

(***************************************************************************)
(* Bounds of the model                                                     *)
(***************************************************************************)
MaxAdds == 3
MaxReplies == 2
MaxQueueTime == 10000

\* Steps of the clock before a packet, a reply and a timer, and the reply RTT
\* handed to the queue
AddSteps == {50, 1000, 4000}
ReplySteps == {1000, 4000}
TimerSteps == {4000}
QueueRtt == 4000

\* SpecConnId: the addresses are ip 1..MaxIp, port 1..MaxPort
MaxIp == 3
MaxPort == 3

\* SpecStats: packets processed, and the lengths of the retransmission tasks
MaxPkts == 103
LossBursts == {0, 1, 6}

(***************************************************************************)
(* Bounds and inputs of the engine                                         *)
(***************************************************************************)
\* datagrams and ICMP responses after the scripted ones
MaxFree == 3

\* server datagrams of the scripted burst
WarmupData == 24

\* SpecIdle: datagrams
MaxIdlePkts == 5

\* the time up to which the loop is followed, in microseconds: Spec, SpecIdle
MaxClock == 100000
MaxIdleClock == 1000000000

\* time until a datagram of Spec, an ICMP response, a datagram of SpecIdle arrives
PktSteps == {50, 4000}
IcmpSteps == {50, 4000}
IdleSteps == {0, 60000000}

\* how late process_timeout reads the clock
TimerLate == {0, 1}

Client == [ip |-> 1, port |-> 1]
Server == [ip |-> 2, port |-> 1]
OtherClient == [ip |-> 3, port |-> 1]

FlowDirs == {<<Client, Server>>, <<Server, Client>>, <<OtherClient, Server>>,
             <<Server, OtherClient>>}

\* an input of the socket: after dt, a datagram of `size` bytes holding `parts`
Ev(dt, src, dst, parts, size) ==
  [dt |-> dt, src |-> src, dst |-> dst, parts |-> parts, size |-> size]

ClientKinds == {<<<<"Initial">>, 1200>>, <<<<"Short">>, 40>>, <<<<"Truncated">>, 10>>,
                <<<<"Initial", "Short">>, 1200>>, <<<<>>, 0>>}

ServerKinds == {<<<<"Initial", "Handshake">>, 1200>>, <<<<"Short">>, 1200>>}

FreeInputs ==
  {Ev(dt, Client, Server, k[1], k[2]) : dt \in PktSteps, k \in ClientKinds}
  \cup {Ev(dt, Server, Client, k[1], k[2]) : dt \in PktSteps, k \in ServerKinds}

IdleInputs ==
  {Ev(dt, c, Server, <<"Initial">>, 1200) : dt \in IdleSteps, c \in {Client, OtherClient}}

\* a handshake, the first reply of the client, and a burst of data from the server
Warmup ==
  <<Ev(1000, Client, Server, <<"Initial">>, 1200),
    Ev(4000, Server, Client, <<"Initial", "Handshake">>, 1200),
    Ev(4000, Client, Server, <<"Short">>, 40)>>
  \o [k \in 1..WarmupData |-> Ev(50, Server, Client, <<"Short">>, 1200)]

\* the client acknowledges the burst in two small datagrams
Acked == Warmup \o <<Ev(50, Client, Server, <<"Short">>, 40),
                      Ev(50, Client, Server, <<"Short">>, 40)>>

\* a handshake and two flowlets from the server, each answered by the client
Probed ==
  <<Ev(1000, Client, Server, <<"Initial">>, 1200),
    Ev(4000, Server, Client, <<"Initial", "Handshake">>, 1200),
    Ev(4000, Client, Server, <<"Short">>, 40),
    Ev(4000, Server, Client, <<"Short">>, 1200),
    Ev(4000, Client, Server, <<"Short">>, 40)>>
\* a client 30 ms away; the server sends three datagrams with growing gaps, and
\* the client answers the later ones before the flowlet of the first has timed out
Bursty ==
  <<Ev(1000, Client, Server, <<"Initial">>, 1200),
    Ev(4000, Server, Client, <<"Initial", "Handshake">>, 1200),
    Ev(30000, Client, Server, <<"Short">>, 40),
    Ev(5000, Server, Client, <<"Short">>, 1200),
    Ev(14000, Server, Client, <<"Short">>, 1200),
    Ev(15000, Server, Client, <<"Short">>, 1200),
    Ev(8500, Client, Server, <<"Short">>, 40)>>

\* the burst of Warmup on a connection whose handshake is not seen: the server
\* sends Initial packets only
Stalled ==
  <<Ev(1000, Client, Server, <<"Initial">>, 1200),
    Ev(4000, Server, Client, <<"Initial">>, 1200),
    Ev(4000, Client, Server, <<"Initial">>, 40)>>
  \o [k \in 1..WarmupData |-> Ev(50, Server, Client, <<"Initial">>, 1200)]

\* server datagrams that follow the scripted burst at a steady rate
SteadyData == 36

\* a server 50 us away; the client acknowledges the burst once and then is silent
\* while the server keeps sending
Steady ==
  <<Ev(1000, Client, Server, <<"Initial">>, 1200),
    Ev(50, Server, Client, <<"Initial", "Handshake">>, 1200),
    Ev(4000, Client, Server, <<"Short">>, 40)>>
  \o [k \in 1..WarmupData |-> Ev(50, Server, Client, <<"Short">>, 1200)]
  \o <<Ev(50, Client, Server, <<"Short">>, 40)>>
  \o [k \in 1..SteadyData |-> Ev(150, Server, Client, <<"Short">>, 1200)]

\* proxy_only and the datagrams that come first
Starts == {<<FALSE, <<>>>>, <<TRUE, <<>>>>, <<FALSE, Acked>>, <<FALSE, Probed>>,
           <<FALSE, Bursty>>, <<FALSE, Stalled>>, <<FALSE, Steady>>}

VARIABLES
  pq,      \* SpecQueue: a PacketQueue
  qnow,    \* SpecQueue: the clock
  qlast,   \* SpecQueue: the last operation and what it returned
  cid_in,  \* SpecConnId: the two addresses of a datagram
  cid_out, \* SpecConnId: the ConnIds of the two directions
  stats,   \* SpecStats: the Stats of a PEMI
  sfresh,  \* SpecStats: server packets forwarded and not yet found lost
  slast,   \* SpecStats: what the last retransmission tasks sent and skipped
  pemi,      \* Spec, SpecIdle: the PEMI of main
  clock,     \* Spec, SpecIdle: Instant::now()
  last,      \* Spec, SpecIdle: the last turn of the loop and what it sent
  forwarded, \* Spec, SpecIdle: per direction, the newest datagram forwarded so far
  env,       \* Spec, SpecIdle: the inputs still to come
  resent,    \* Spec, SpecIdle: the datagrams retransmitted so far
  call,      \* SpecDp: the function called and its arguments;
             \* SpecHandshakeLost: the calls made so far and their times
  ret        \* SpecDp: what the call returned, once it has returned

qvars == <<pq, qnow, qlast>>

cvars == <<cid_in, cid_out>>

svars == <<stats, sfresh, slast>>

evars == <<pemi, clock, last, forwarded, env, resent>>

fvars == <<call, ret>>
vars == <<qvars, cvars, svars, evars, fvars>>

\* the variables of the specifications that are not running
QueueIdle == pq = <<>> /\ qnow = 0 /\ qlast = <<>>

ConnIdIdle == cid_in = <<>> /\ cid_out = <<>>

StatsIdle == stats = <<>> /\ sfresh = 0 /\ slast = <<>>

EngineIdle ==
  /\ pemi = <<>> /\ clock = 0 /\ last = <<>> /\ forwarded = <<>> /\ env = <<>>
  /\ resent = {}

CallIdle == call = <<>> /\ ret = <<>>

(***************************************************************************)
(* SpecQueue: one PacketQueue driven through its public operations         *)
(***************************************************************************)
NoResult == [op |-> "new", accepted |-> FALSE, samples |-> <<>>, removed |-> <<>>,
             pkt_num |-> 0, new_flowlet |-> FALSE, task |-> <<>>,
             had_loss |-> FALSE, dominant_direction |-> "None", overspeed |-> FALSE]

QueueOnly == UNCHANGED <<cvars, svars, evars, fvars>>

QueueInit ==
  /\ pq = PacketQueueNew(0, 4, 1)
  /\ qnow = 0
  /\ qlast = NoResult
  /\ ConnIdIdle /\ StatsIdle /\ EngineIdle /\ CallIdle

QAdded(r, now) ==
  /\ pq' = r.q
  /\ qlast' = [NoResult EXCEPT !.op = "add", !.pkt_num = r.pkt_num,
                               !.new_flowlet = r.new_flowlet]
  /\ qnow' = now
  /\ QueueOnly

QAdd ==
  \E dt \in AddSteps, raw \in BOOLEAN :
    /\ ~pq.abort /\ qnow + dt <= MaxQueueTime /\ pq.processed < MaxAdds
    /\ QAdded(PacketQueueAdd(pq, qnow + dt, IF raw THEN <<pq.processed + 1>> ELSE <<>>,
                             QueueRtt), qnow + dt)

QReplied(r, now) ==
  /\ pq' = r.q
  /\ qlast' = [NoResult EXCEPT !.op = "check_reply", !.accepted = r.accepted,
                               !.samples = r.samples, !.removed = r.removed]
  /\ qnow' = now
  /\ QueueOnly

QCheckReply ==
  \E dt \in ReplySteps :
    /\ ~pq.abort /\ qnow + dt <= MaxQueueTime /\ pq.reply_nums < MaxReplies
    /\ QReplied(check_reply(pq, qnow + dt, pq.reply_nums + 1, QueueRtt), qnow + dt)

QTimedOut(r, now) ==
  /\ pq' = r.q
  /\ qlast' = [NoResult EXCEPT !.op = "on_timeout", !.samples = r.samples,
                               !.removed = r.removed]
  /\ qnow' = now
  /\ QueueOnly

QOnTimeout ==
  \E dt \in TimerSteps :
    /\ ~pq.abort /\ qnow + dt <= MaxQueueTime
    /\ QTimedOut(on_timeout(pq, qnow + dt, QueueRtt), qnow + dt)

QReset ==
  /\ ~pq.abort
  /\ pq' = reset_due_to_rtt_deviation(pq)
  /\ qlast' = [NoResult EXCEPT !.op = "reset"]
  /\ UNCHANGED qnow
  /\ QueueOnly

DominantDirections == {"ToClient", "ToServer", "None"}

QTasked(r, had_loss, dominant_direction, overspeed) ==
  /\ pq' = r.q
  /\ qlast' = [NoResult EXCEPT !.op = "retrans_task", !.task = r.task,
                               !.had_loss = had_loss,
                               !.dominant_direction = dominant_direction,
                               !.overspeed = overspeed]
  /\ UNCHANGED qnow
  /\ QueueOnly

\* Conn::to_client_retrans_task on a Conn holding this queue
QRetransTask ==
  \E dominant_direction \in DominantDirections, overspeed \in BOOLEAN :
    /\ ~pq.abort
    /\ QTasked(to_client_retrans_task(pq, "server", "client", dominant_direction, overspeed),
               have_retransmit(pq), dominant_direction, overspeed)

QueueNext == QAdd \/ QCheckReply \/ QOnTimeout \/ QReset \/ QRetransTask

SpecQueue == QueueInit /\ [][QueueNext]_vars

(***************************************************************************)
(* SpecLong: one PacketQueue under a long burst: a packet every 50 us,     *)
(* with a pause of 4 ms after the packets counted in LongGaps, and a reply  *)
(* that comes after the last packet while the queue holds two flowlets     *)
(***************************************************************************)
\* packets of the burst
MaxLongAdds == 1002

\* replies
MaxLongReplies == 1

\* the packet counts after which the sender pauses
LongGaps == {1, 102}

LongSteps(n) == IF n \in LongGaps THEN {4000} ELSE {50}

LongInit == QueueInit

LongAdd ==
  \E dt \in LongSteps(pq.processed) :
    /\ ~pq.abort /\ pq.reply_nums = 0 /\ pq.processed < MaxLongAdds
    /\ QAdded(PacketQueueAdd(pq, qnow + dt, <<pq.processed + 1>>, QueueRtt), qnow + dt)

LongCheckReply ==
  \E dt \in ReplySteps :
    /\ ~pq.abort /\ Len(pq.flowlets) = 2 /\ pq.reply_nums < MaxLongReplies
    /\ QReplied(check_reply(pq, qnow + dt, pq.reply_nums + 1, QueueRtt), qnow + dt)

LongNext == LongAdd \/ LongCheckReply

SpecLong == LongInit /\ [][LongNext]_vars

(***************************************************************************)
(* SpecConnId: the ConnId of a datagram and of its reply                   *)
(***************************************************************************)
Addrs == {[ip |-> i, port |-> p] : i \in 1..MaxIp, p \in 1..MaxPort}

ConnIdInit ==
  /\ cid_in \in Addrs \X Addrs
  /\ cid_out = <<>>
  /\ QueueIdle /\ StatsIdle /\ EngineIdle /\ CallIdle

\* the lookups of process_packet for a datagram src -> dst and for one dst -> src
ConnIdBoth ==
  /\ cid_out = <<>>
  /\ cid_out' = <<ConnIdNew(cid_in[1], cid_in[2]), ConnIdNew(cid_in[2], cid_in[1])>>
  /\ UNCHANGED <<cid_in, qvars, svars, evars, fvars>>

ConnIdNext == ConnIdBoth

SpecConnId == ConnIdInit /\ [][ConnIdNext]_vars

(***************************************************************************)
(* SpecStats: the counters of a PEMI over the iterations of the main loop. *)
(* Every Raw packet from the server can be found lost, and so be in a      *)
(* retransmission task, once.                                              *)
(***************************************************************************)
StatsInit ==
  /\ stats = StatsNew
  /\ sfresh = 0
  /\ slast = [sent |-> 0, skipped |-> 0]
  /\ QueueIdle /\ ConnIdIdle /\ EngineIdle /\ CallIdle

SRetransmitted(r, fresh) ==
  /\ stats' = r.stats
  /\ slast' = [sent |-> r.sent, skipped |-> r.skipped]
  /\ sfresh' = fresh
  /\ UNCHANGED <<qvars, cvars, evars, fvars>>

\* process_packet, then the task it left is processed (main.rs)
SProcessPacket ==
  \E from_server \in BOOLEAN, lost \in LossBursts :
    /\ stats.pkts < MaxPkts
    /\ lost <= sfresh + (IF from_server THEN 1 ELSE 0)
    /\ SRetransmitted(RetransCount([stats |-> new_pkt(stats), sent |-> 0, skipped |-> 0],
                                   lost, 1),
                      sfresh + (IF from_server THEN 1 ELSE 0) - lost)

\* process_timeout, then the task it left is processed (main.rs)
SProcessTimeout ==
  \E lost \in LossBursts :
    /\ lost > 0 /\ lost <= sfresh
    /\ SRetransmitted(RetransCount([stats |-> stats, sent |-> 0, skipped |-> 0], lost, 1),
                      sfresh - lost)

StatsNext == SProcessPacket \/ SProcessTimeout

SpecStats == StatsInit /\ [][StatsNext]_vars

(***************************************************************************)
(* Spec: the main loop (main.rs) around a PEMI.  The arguments of main     *)
(* are at their defaults, but for proxy_only.                              *)
(***************************************************************************)
NoDatagram == [id |-> 0, src |-> Server, dst |-> Server, parts |-> <<>>, size |-> 0]

\* icmp: what the ICMP socket delivered in the turn, sample: the RTT it gave,
\* reset: the connections whose to_client_queue lost flowlets to the sample
Started == [op |-> "start", d |-> NoDatagram, sent |-> <<>>, removed |-> {},
            icmp |-> "", sample |-> 0, reset |-> {}]

EngineInit ==
  /\ \E s \in Starts :
       /\ pemi = set_proxy_only(pemi_set_factors(PEMINew, 4, 1), s[1])
       /\ env = [script |-> s[2], budget |-> MaxFree, horizon |-> MaxClock]
  /\ clock = 0
  /\ last = Started
  /\ forwarded = [dir \in FlowDirs |-> 0]
  /\ resent = {}
  /\ QueueIdle /\ ConnIdIdle /\ StatsIdle /\ CallIdle

Running == pemi.exit = "running"

\* the datagram or response arrives before the sleep of the loop ends
Arrives(dt) ==
  IF pemi_timeout(pemi, clock) = <<>> THEN TRUE ELSE dt <= pemi_timeout(pemi, clock)[1]

\* the highest arrival number among the datagrams of a direction forwarded so far
ForwardedNow(io, dir, before) ==
  SetMax({before} \cup {io[k].id : k \in {j \in 1..Len(io) :
            io[j].site # "retrans" /\ io[j].src = dir[1] /\ io[j].dst = dir[2]}})

\* one turn of the loop has left p at time t
\* the connections of p0 that have fewer flowlets to the client in p
LostFlowlets(p0, p) ==
  {k \in DOMAIN p0.conns \cap DOMAIN p.conns :
     Len(p.conns[k].to_client_queue.flowlets) < Len(p0.conns[k].to_client_queue.flowlets)}

Turn(p, op, d, t, icmp, sample) ==
  /\ pemi' = [p EXCEPT !.io = <<>>]
  /\ clock' = t
  /\ last' = [op |-> op, d |-> d, sent |-> p.io,
              removed |-> DOMAIN pemi.conns \ DOMAIN p.conns,
              icmp |-> icmp, sample |-> sample,
              reset |-> IF icmp = "EchoReply" THEN LostFlowlets(pemi, p) ELSE {}]
  /\ forwarded' = [dir \in FlowDirs |-> ForwardedNow(p.io, dir, forwarded[dir])]
  /\ resent' = resent \cup {p.io[k].id : k \in {j \in 1..Len(p.io) : p.io[j].site = "retrans"}}
  /\ UNCHANGED <<qvars, cvars, svars, fvars>>

Step(p, op, d, t) == Turn(p, op, d, t, "", 0)

DatagramOf(ev) ==
  [id |-> pemi.stats.pkts + 1, src |-> ev.src, dst |-> ev.dst,
   parts |-> ev.parts, size |-> ev.size]

\* the socket is readable: process_packet, then the retransmission tasks
Received(ev, t) ==
  /\ Step(DrainTasks(process_packet(pemi, DatagramOf(ev), t), t),
          "process_packet", DatagramOf(ev), t)
  /\ env' = IF env.script # <<>> THEN [env EXCEPT !.script = Tail(@)]
            ELSE [env EXCEPT !.budget = @ - 1]

Inputs ==
  IF env.script # <<>> THEN {Head(env.script)}
  ELSE IF env.budget > 0 THEN FreeInputs ELSE {}

RecvPacket ==
  \E ev \in Inputs :
    /\ Running
    /\ Arrives(ev.dt)
    /\ Received(ev, clock + ev.dt)

\* no datagram arrives before the sleep of the loop ends
Quiet(d) == IF env.script = <<>> THEN TRUE ELSE d <= Head(env.script).dt

\* the sleep of the loop ends
Sleep ==
  /\ Running
  /\ pemi_timeout(pemi, clock) # <<>>
  /\ pemi_timeout(pemi, clock)[1] > 0
  /\ Quiet(pemi_timeout(pemi, clock)[1])
  /\ clock + pemi_timeout(pemi, clock)[1] <= env.horizon
  /\ clock' = clock + pemi_timeout(pemi, clock)[1]
  /\ last' = [Started EXCEPT !.op = "sleep"]
  /\ UNCHANGED <<pemi, forwarded, env, resent, qvars, cvars, svars, fvars>>

\* timeout == Some(ZERO): process_timeout, then the retransmission tasks
ProcessTimeout ==
  \E late \in TimerLate :
    /\ Running
    /\ pemi_timeout(pemi, clock) = <<0>>
    /\ Step(DrainTasks(process_timeout(pemi, clock + late), clock + late),
            "process_timeout", NoDatagram, clock + late)
    /\ UNCHANGED env

\* rtt_detector.recv_response for the request k, then rtt_calibration
Responded(k, t) ==
  /\ Turn(pemi_rtt_calibration(
            [pemi EXCEPT !.probes = SubSeq(@, 1, k - 1) \o SubSeq(@, k + 1, Len(@))],
            DurationSince(t, pemi.probes[k].time), t),
          "rtt_calibration", NoDatagram, t, "EchoReply", DurationSince(t, pemi.probes[k].time))
  /\ env' = [env EXCEPT !.budget = @ - 1]

\* the ICMP socket is readable
IcmpResponse ==
  \E k \in 1..Len(pemi.probes), dt \in IcmpSteps :
    /\ Running
    /\ env.script = <<>> /\ env.budget > 0
    /\ Arrives(dt)
    /\ Responded(k, clock + dt)

\* what the ICMP socket can deliver that is not the Echo Reply of an outstanding
\* probe: another ICMP type, fewer bytes than an ICMP header, an Echo Reply with
\* a sequence number that is not outstanding, an Echo Reply of an unprobed address
IcmpStrays == {"DestinationUnreachable", "Truncated", "UnknownSeq", "UnknownAddr"}

\* RttDetector::recv_response on a stray: Err(InvalidData) for the first two,
\* a panic in recv_response for the Echo Replies; main panics on the Err
recv_response_stray(p, icmp) == [p EXCEPT !.exit = "panic"]

\* the ICMP socket is readable and holds a stray
IcmpStray ==
  \E icmp \in IcmpStrays, dt \in IcmpSteps :
    /\ Running
    /\ env.script = <<>> /\ env.budget > 0
    /\ Arrives(dt)
    /\ Turn(recv_response_stray(pemi, icmp), "recv_response", NoDatagram, clock + dt, icmp, 0)
    /\ env' = [env EXCEPT !.budget = @ - 1]

Next == RecvPacket \/ Sleep \/ ProcessTimeout \/ IcmpResponse \/ IcmpStray

Spec == EngineInit /\ [][Next]_vars

(***************************************************************************)
(* SpecIdle: connections that are opened and then left alone, the clients  *)
(* repeating their Initial                                                 *)
(***************************************************************************)
IdleInit ==
  /\ pemi = pemi_set_factors(PEMINew, 4, 1)
  /\ clock = 0
  /\ last = Started
  /\ forwarded = [dir \in FlowDirs |-> 0]
  /\ resent = {}
  /\ env = [script |-> <<>>, budget |-> MaxIdlePkts, horizon |-> MaxIdleClock]
  /\ QueueIdle /\ ConnIdIdle /\ StatsIdle /\ CallIdle

IdleRecvPacket ==
  \E ev \in IdleInputs :
    /\ Running
    /\ env.budget > 0
    /\ Arrives(ev.dt)
    /\ Received(ev, clock + ev.dt)

IdleNext == IdleRecvPacket \/ Sleep \/ ProcessTimeout

SpecIdle == IdleInit /\ [][IdleNext]_vars

(***************************************************************************)
(* Properties of the PacketQueue                                           *)
(***************************************************************************)
\* C5: Conn::to_client_retrans_task produces a Task only if loss has been detected on
\* the to_client queue, the dominant direction is ToClient and overspeed is false;
\* with loss detected and the dominant direction ToClient, it produces a Task (of the
\* lost packets) when overspeed is false and none when overspeed is true.
C5_TaskOnlyThroughGate ==
  qlast.op = "retrans_task" =>
    /\ qlast.task # <<>> <=>
         (qlast.had_loss /\ qlast.dominant_direction = "ToClient" /\ ~qlast.overspeed)
    /\ qlast.task # <<>> => qlast.task[1].retrans_queue # <<>>

\* loss was detected, the dominant direction is ToClient, overspeed holds: no Task
C5_Witness ==
  /\ qlast.op = "retrans_task" /\ qlast.had_loss
  /\ qlast.dominant_direction = "ToClient" /\ qlast.overspeed
  /\ qlast.task = <<>>

\* the last operation took complete flowlets out of the queue
RemovedFlowlets == IF qlast.op \in {"check_reply", "on_timeout"} THEN Range(qlast.removed) ELSE {}

\* C9 (as stated): when a completed flowlet is removed, every packet whose number is
\* in its loss set is placed in detected_loss, payload and forward timestamp kept,
\* and the packets that are not lost are dropped.
C9_EveryLostPacketQueued ==
  \A r \in RemovedFlowlets : \A p \in Range(r.pkts) :
    /\ p \notin Range(pq.packets)
    /\ p \in Range(pq.detected_loss) <=> p.number \in r.lossed_pkts

\* C9 (amended): when a completed flowlet is removed, every lost Raw packet is placed
\* in detected_loss, payload and forward timestamp kept; a lost Retrans packet and
\* every packet that is not lost are dropped.
C9_LostRawPacketsQueued ==
  \A r \in RemovedFlowlets : \A p \in Range(r.pkts) :
    /\ p \notin Range(pq.packets)
    /\ p \in Range(pq.detected_loss) <=> (p.number \in r.lossed_pkts /\ p.raw)

\* a flowlet was removed with a lost Raw packet, a lost Retrans packet and one not lost
C9_Witness ==
  \E r \in RemovedFlowlets :
    /\ \E p \in Range(r.pkts) : p.number \in r.lossed_pkts /\ p.raw
    /\ \E p \in Range(r.pkts) : p.number \in r.lossed_pkts /\ ~p.raw
    /\ \E p \in Range(r.pkts) : p.number \notin r.lossed_pkts

\* C10: the packet numbers a PacketQueue assigns are strictly increasing: the counter
\* starts at 1, add gives the inserted packet the next number, and no other
\* operation moves the counter.
C10_PacketNumbersIncrease ==
  [][/\ pq'.processed >= pq.processed
     /\ qlast'.op = "add" =>
          /\ qlast'.pkt_num = pq.processed + 1
          /\ pq'.processed = qlast'.pkt_num
          /\ Last(pq'.packets).number = qlast'.pkt_num
          /\ pq.processed = 0 => qlast'.pkt_num = 1
          /\ \A k \in 1..Len(pq.packets) : pq.packets[k].number < qlast'.pkt_num
     /\ qlast'.op # "add" => pq'.processed = pq.processed]_vars

\* three packets were added, the first of them is still queued
C10_Witness ==
  /\ qlast.op = "add" /\ qlast.pkt_num = 3
  /\ Len(pq.packets) = 3 /\ pq.packets[1].number = 1

(***************************************************************************)
(* Properties of ConnId                                                    *)
(***************************************************************************)
\* C8: ConnId construction is commutative: ConnId::new(a, b) = ConnId::new(b, a) for
\* all socket addresses a and b, so that the two directions of a flow have one entry.
C8_ConnIdCommutative ==
  cid_out # <<>> =>
    /\ cid_out[1] = cid_out[2]
    /\ {cid_out[1].addr1, cid_out[1].addr2} = {cid_in[1], cid_in[2]}

\* a datagram whose source is the larger address: ConnId::new swapped the two
C8_Witness ==
  /\ cid_out # <<>>
  /\ AddrLess(cid_in[2], cid_in[1])
  /\ cid_out[1].addr1 = cid_in[2]

(***************************************************************************)
(* Properties of the retransmission rate limit                             *)
(***************************************************************************)
\* C4 (as stated): in every reachable state with pkts > 100,
\* retrans_pkts <= 0.1 * pkts + 1.
C4_RateBoundedAfter100 ==
  stats.pkts > RETRANS_LIMIT_AFTER => 10 * stats.retrans_pkts <= stats.pkts + 10

\* C4 (amended): a retransmission sent while pkts > 100 leaves
\* retrans_pkts <= 0.1 * pkts + 1; while the rate is above 0.1 and pkts > 100 no
\* retransmission is sent.  The retransmissions sent while pkts <= 100 are not bounded.
C4_RetransmissionKeepsRate ==
  [][(stats'.pkts > RETRANS_LIMIT_AFTER /\ stats'.retrans_pkts > stats.retrans_pkts)
       => 10 * stats'.retrans_pkts <= stats'.pkts + 10]_vars

\* past 100 packets a task was cut short by the limit: one packet sent, the rest skipped
C4_Witness ==
  /\ stats.pkts > RETRANS_LIMIT_AFTER
  /\ slast.sent > 0 /\ slast.skipped > 0

(***************************************************************************)
(* The datagrams a turn of the loop sent                                   *)
(***************************************************************************)
\* the connection of Client and Server, and the one of OtherClient and Server
FlowConn == ConnIdNew(Client, Server)
OtherConn == ConnIdNew(OtherClient, Server)

\* the arrival numbers of the datagrams sent from `site`, in the order they left
SentFrom(sent, site) ==
  [k \in 1..Len(SelectSeq(sent, LAMBDA o : o.site = site)) |->
     SelectSeq(sent, LAMBDA o : o.site = site)[k].id]

\* the original datagrams of a direction, in the order they left
Originals(sent, dir) ==
  SelectSeq(sent, LAMBDA o : o.site # "retrans" /\ o.src = dir[1] /\ o.dst = dir[2])

\* the positions of the datagrams released by the reorder trigger
Released(s) == {k \in 1..Len(s) : s[k].site = "reorder"}

\* the arrival numbers of s, the first datagram of the released batch put back
\* behind the others of the batch
ArrivalOrder(s) ==
  IF Released(s) = {} THEN [k \in 1..Len(s) |-> s[k].id]
  ELSE [k \in 1..Len(s) |->
          IF k < SetMin(Released(s)) \/ k > SetMax(Released(s)) THEN s[k].id
          ELSE IF k = SetMax(Released(s)) THEN s[SetMin(Released(s))].id
          ELSE s[k + 1].id]

\* o is strictly increasing and starts above floor
Increasing(o, floor) ==
  \A k \in 1..Len(o) : o[k] > (IF k = 1 THEN floor ELSE o[k - 1])

\* the arrival numbers of the delayed ACKs of the connection of Client and Server
DelayedAcks(p) ==
  IF FlowConn \in DOMAIN p.conns
  THEN [k \in 1..Len(p.conns[FlowConn].delayed_ack_queue) |->
          p.conns[FlowConn].delayed_ack_queue[k].payload]
  ELSE <<>>

\* C1 (as the specification states it): in proxy_only, process_packet has sent
\* exactly the datagram it was handed, once and unchanged, when it returns: nothing
\* delayed, nothing retransmitted.
C1_ProxyForwardsEveryDatagram ==
  (pemi.proxy_only /\ last.op = "process_packet")
    => /\ last.sent = <<Datagram("forward", last.d.id, last.d.src, last.d.dst)>>
       /\ \A k \in DOMAIN pemi.conns : pemi.conns[k].delayed_ack_queue = <<>>

\* C2: in every turn of the loop and for each direction, the original datagrams
\* leave in the order they arrived and after all those of the direction that left
\* before, but for the batch of the reorder trigger, whose newest datagram leaves
\* first; from the server to the client nothing but the datagram just received
\* leaves.
C2_ForwardedInArrivalOrder ==
  [][\A dir \in FlowDirs :
       /\ Increasing(ArrivalOrder(Originals(last'.sent, dir)), forwarded[dir])
       /\ dir[1] = Server
            => \A k \in 1..Len(Originals(last'.sent, dir)) :
                 /\ Originals(last'.sent, dir)[k].site = "forward"
                 /\ Originals(last'.sent, dir)[k].id = last'.d.id]_vars

\* a datagram of the server ends overspeed: it is forwarded and the delayed ACKs,
\* two or more, leave in the order they arrived
C2_Witness ==
  /\ last.op = "process_packet" /\ last.d.src = Server
  /\ SentFrom(last.sent, "forward") = <<last.d.id>>
  /\ Len(SentFrom(last.sent, "flush")) >= 2
  /\ Increasing(SentFrom(last.sent, "flush"), 0)
  /\ forwarded[<<Client, Server>>] = Last(SentFrom(last.sent, "flush"))

\* the delayed ACKs when the release fires: the queue before the turn and the
\* datagram of the client that the turn queued
QueuedAtRelease ==
  DelayedAcks(pemi)
  \o (IF last'.op = "process_packet" /\ last'.d.src = Client
         /\ SentFrom(last'.sent, "forward") = <<>>
      THEN <<last'.d.id>> ELSE <<>>)

\* C3: when the release of the delayed ACKs fires, the queue holds two datagrams or
\* more; the newest leaves first, then the others in the order they arrived, and the
\* queue is left empty.
C3_ReleaseTailFirst ==
  [][SentFrom(last'.sent, "reorder") # <<>>
       => /\ Len(QueuedAtRelease) >= 2
          /\ SentFrom(last'.sent, "reorder")
               = <<Last(QueuedAtRelease)>>
                 \o SubSeq(QueuedAtRelease, 1, Len(QueuedAtRelease) - 1)
          /\ DelayedAcks(pemi') = <<>>]_vars

\* four datagrams of the client queued under overspeed, the handshake complete, have
\* left in the order [d4, d1, d2, d3]
C3_Witness ==
  /\ last.op = "process_packet" /\ last.d.src = Client
  /\ FlowConn \in DOMAIN pemi.conns
  /\ pemi.conns[FlowConn].overspeed /\ is_handshaked(pemi.conns[FlowConn])
  /\ last.sent = <<Datagram("reorder", last.d.id, Client, Server),
                   Datagram("reorder", last.d.id - 3, Client, Server),
                   Datagram("reorder", last.d.id - 2, Client, Server),
                   Datagram("reorder", last.d.id - 1, Client, Server)>>
  /\ pemi.conns[FlowConn].delayed_ack_queue = <<>>

\* C6 (as the specification states it): after process_packet or process_timeout at
\* time now, no connection with now - last_access >= IDLE_TIMEOUT is in the table.
C6_NoIdleConnRemains ==
  last.op \in {"process_packet", "process_timeout"}
    => \A k \in DOMAIN pemi.conns :
         DurationSince(clock, pemi.conns[k].last_access) < IDLE_TIMEOUT

\* the connections of the heap of access times
HeapConns(p) == {t[2] : t \in p.access_times}

\* C7: a connection that a turn of the loop removes was last accessed IDLE_TIMEOUT
\* or more before the time of the turn, and is not the connection of the datagram
\* of the turn; the table and the heap then hold the same connections, once each.
C7_RemovesOnlyIdle ==
  [][/\ \A k \in last'.removed :
          /\ DurationSince(clock', pemi.conns[k].last_access) >= IDLE_TIMEOUT
          /\ last'.op = "process_packet" => k # ConnIdNew(last'.d.src, last'.d.dst)
     /\ HeapConns(pemi') = DOMAIN pemi'.conns
     /\ Cardinality(pemi'.access_times) = Cardinality(DOMAIN pemi'.conns)]_vars

\* A created at 0 and B at 60 s: remove_idle_conns at 120 s has removed A, and
\* exactly B is in the table and in the heap
C7_Witness ==
  /\ clock = IDLE_TIMEOUT
  /\ last.op = "process_timeout" /\ last.removed = {FlowConn}
  /\ DOMAIN pemi.conns = {OtherConn}
  /\ pemi.conns[OtherConn].begin_time = IDLE_TIMEOUT \div 2
  /\ pemi.access_times = {<<IDLE_TIMEOUT \div 2, OtherConn>>}

(***************************************************************************)
(* Claims on the flowlets of a PacketQueue                                  *)
(***************************************************************************)
StrictlyIncreasing(s) == \A i \in 1..Len(s) - 1 : s[i] < s[i + 1]

\* C11: in every reachable state of a PacketQueue the flowlets are ordered by
\* non-decreasing begin_time from front to back, and every flowlet has
\* strictly increasing pkt_nums and begin_time <= end_time.
C11_FlowletsOrdered ==
  /\ \A i \in 1..Len(pq.flowlets) - 1 :
       pq.flowlets[i].begin_time <= pq.flowlets[i + 1].begin_time
  /\ \A i \in 1..Len(pq.flowlets) :
       /\ StrictlyIncreasing(pq.flowlets[i].pkt_nums)
       /\ pq.flowlets[i].begin_time <= pq.flowlets[i].end_time

\* two flowlets in the deque, the front one holding two packets sent apart
C11_Witness ==
  /\ Len(pq.flowlets) = 2
  /\ Len(pq.flowlets[1].pkt_nums) = 2
  /\ pq.flowlets[1].begin_time < pq.flowlets[1].end_time
  /\ pq.flowlets[1].begin_time < pq.flowlets[2].begin_time

\* the flowlets the last operation completed with as many replies as packets
ExactlyReplied == {r \in RemovedFlowlets : Len(r.replies) = Len(r.pkts)}

\* C12: when a flowlet of n packets that received n replies accepted by
\* check_reply, in order, is completed, none of its packets is put in
\* detected_loss and exactly n RTT samples are returned, the i-th being
\* reply_time_i - send_time_i.
C12_ExactFlowletSamples ==
  \A r \in ExactlyReplied :
    /\ r.lossed_pkts = {}
    /\ \A k \in 1..Len(r.pkts) : r.pkts[k] \notin Range(pq.detected_loss)
    /\ Len(r.samples) = Len(r.pkts)
    /\ \A i \in 1..Len(r.pkts) : r.samples[i] = r.replies[i] - r.pkts[i].timestamp
    /\ Len(qlast.removed) = 1 => qlast.samples = r.samples

\* a flowlet of two packets sent apart, each replied, has been completed
C12_Witness ==
  \E r \in ExactlyReplied :
    /\ Len(r.pkts) = 2
    /\ r.pkts[1].timestamp < r.pkts[2].timestamp
    /\ r.replies[1] < r.replies[2]
    /\ Len(qlast.samples) = 2
    /\ qlast.samples[1] # qlast.samples[2]

(***************************************************************************)
(* SpecDp: Flowlet::match_sent_reply_dp called once on sorted times        *)
(***************************************************************************)
\* the longest list of sent times, and the latest time, of the enumerated calls
MaxDpLen == 3
MaxDpTime == 3
DpRtts == {0, 2}
DpArgs(sent, reply, used_rtt) == [sent |-> sent, reply |-> reply, used_rtt |-> used_rtt]
\* the four calls of tests::test_match_sent_reply_dp_all_examples
DpExample1 == DpArgs(<<0, 50, 100, 150, 200, 250>>, <<30, 98, 200, 298, 352>>, 100)
DpExample2 == DpArgs(<<0, 40, 80, 120, 160, 200, 240>>, <<18, 121, 205, 330, 400>>, 120)
DpExample3 == DpArgs(<<0, 10, 20, 30, 40, 50, 60>>, <<20, 30, 51, 71>>, 20)
DpExample4 == DpArgs(<<1, 2, 3, 4>>, <<2, 4>>, 0)
DpExamples == {DpExample1, DpExample2, DpExample3, DpExample4}
Sorted(s) == \A i \in 1..Len(s) - 1 : s[i] <= s[i + 1]
SortedTimes(len) == {s \in [1..len -> 0..MaxDpTime] : Sorted(s)}
\* sorted sent times S[0..n) and reply times R[0..m) with 1 <= m <= n
DpCalls ==
  DpExamples
  \cup UNION {{DpArgs(sent, reply, used_rtt) :
                 sent \in SortedTimes(n), reply \in SortedTimes(m), used_rtt \in DpRtts} :
              n \in 1..MaxDpLen, m \in 1..MaxDpLen}
DpInit ==
  /\ call \in {c \in DpCalls : Len(c.reply) <= Len(c.sent)}
  /\ ret = <<>>
  /\ QueueIdle /\ ConnIdIdle /\ StatsIdle /\ EngineIdle
DpCall ==
  /\ ret = <<>>
  /\ ret' = <<match_sent_reply_dp(call.sent, call.reply, call.used_rtt)>>
  /\ UNCHANGED <<call, qvars, cvars, svars, evars>>
DpNext == DpCall
SpecDp == DpInit /\ [][DpNext]_vars

(***************************************************************************)
(* Claims on the matching of sent packets and replies                      *)
(***************************************************************************)
\* the sent indices (1-based) a mapping matches
Matched(map) == {i \in 1..Len(map) : map[i] # -1}

RECURSIVE MappingCost(_, _, _)
\* the total of |R[j] - S[i] - used_rtt| over the pairs of a mapping, up to index i
MappingCost(c, map, i) ==
  IF i = 0 THEN 0
  ELSE MappingCost(c, map, i - 1)
       + (IF map[i] = -1 THEN 0
          ELSE Abs(c.reply[map[i] + 1] - c.sent[i] - c.used_rtt))

\* the mapping that gives the replies, in order, to the sent indices of T
MappingOf(n, T) ==
  [i \in 1..n |-> IF i \in T THEN Cardinality({k \in T : k < i}) ELSE -1]

\* every mapping of length n whose matched entries increase and use each reply once
Mappings(c) ==
  {MappingOf(Len(c.sent), T) :
     T \in {U \in SUBSET (1..Len(c.sent)) : Cardinality(U) = Len(c.reply)}}

\* C13: for sorted S[0..n) and R[0..m) with 1 <= m <= n, match_sent_reply_dp
\* returns a mapping of length n whose matched entries are strictly increasing,
\* use every reply index 0..m-1 exactly once, and minimise the total of
\* |R[j] - S[i] - used_rtt| over all such mappings; the four examples of the
\* test return [0,1,2,-,3,4], [0,1,2,-,-,3,4], [0,1,-,2,-,3,-] and [-,0,-,1].
C13_DpMatchesOptimally ==
  ret # <<>> =>
    /\ Len(ret[1]) = Len(call.sent)
    /\ \A i, k \in Matched(ret[1]) : i < k => ret[1][i] < ret[1][k]
    /\ {ret[1][i] : i \in Matched(ret[1])} = 0..Len(call.reply) - 1
    /\ Cardinality(Matched(ret[1])) = Len(call.reply)
    /\ \A map \in Mappings(call) :
         MappingCost(call, ret[1], Len(call.sent)) <= MappingCost(call, map, Len(call.sent))
    /\ call = DpExample1 => ret[1] = <<0, 1, 2, -1, 3, 4>>
    /\ call = DpExample2 => ret[1] = <<0, 1, 2, -1, -1, 3, 4>>
    /\ call = DpExample3 => ret[1] = <<0, 1, -1, 2, -1, 3, -1>>
    /\ call = DpExample4 => ret[1] = <<-1, 0, -1, 1>>

\* the first example has returned, with the fourth sent packet left unmatched
C13_Witness ==
  /\ call = DpExample1
  /\ ret = <<<<0, 1, 2, -1, 3, 4>>>>

(***************************************************************************)
(* SpecHandshakeLost: a PacketQueue with the factors of PacketQueue::new,  *)
(* driven at the times of tests::reply_to_right_flowlet                    *)
(***************************************************************************)
\* calls made on the queue
MaxHsCalls == 4
\* the reply RTT of the test, and the gaps between its calls (microseconds)
HsRtt == 950000
HsSteps == {3000, 50000, 950000}
HsCalled(op, now) == Append(call, [op |-> op, now |-> now])
HsInit ==
  /\ pq = PacketQueueNew(0, 4, 4)
  /\ qnow = 0
  /\ qlast = NoResult
  /\ call = <<>>
  /\ ret = <<>>
  /\ ConnIdIdle /\ StatsIdle /\ EngineIdle
HsOnly == UNCHANGED <<ret, cvars, svars, evars>>
HsAdd ==
  \E dt \in HsSteps :
    /\ ~pq.abort /\ Len(call) < MaxHsCalls
    /\ pq' = PacketQueueAdd(pq, qnow + dt, <<pq.processed + 1>>, HsRtt).q
    /\ qlast' = [NoResult EXCEPT !.op = "add", !.pkt_num = pq.processed + 1]
    /\ qnow' = qnow + dt
    /\ call' = HsCalled("add", qnow + dt)
    /\ HsOnly
HsCheckReply ==
  \E dt \in HsSteps :
    /\ ~pq.abort /\ Len(call) < MaxHsCalls
    /\ pq' = check_reply(pq, qnow + dt, pq.reply_nums + 1, HsRtt).q
    /\ qlast' = [NoResult EXCEPT !.op = "check_reply",
                                 !.accepted = check_reply(pq, qnow + dt, pq.reply_nums + 1, HsRtt).accepted]
    /\ qnow' = qnow + dt
    /\ call' = HsCalled("check_reply", qnow + dt)
    /\ HsOnly
HsOnTimeout ==
  \E dt \in HsSteps :
    /\ ~pq.abort /\ Len(call) < MaxHsCalls
    /\ pq' = on_timeout(pq, qnow + dt, HsRtt).q
    /\ qlast' = [NoResult EXCEPT !.op = "on_timeout"]
    /\ qnow' = qnow + dt
    /\ call' = HsCalled("on_timeout", qnow + dt)
    /\ HsOnly
HsNext == HsAdd \/ HsCheckReply \/ HsOnTimeout
SpecHandshakeLost == HsInit /\ [][HsNext]_vars

\* the calls of the scenario: sent@50ms, reply@1000ms, sent@1050ms, reply@1053ms
HandshakeLost ==
  <<[op |-> "add", now |-> 50000], [op |-> "check_reply", now |-> 1000000],
    [op |-> "add", now |-> 1050000], [op |-> "check_reply", now |-> 1053000]>>

\* C14: with reply RTT 950 ms, add(sent@50ms), check_reply(@1000ms),
\* add(sent@1050ms), check_reply(@1053ms) leaves two flowlets, the first
\* holding exactly the first reply and the second exactly the second reply
\* (each replied exactly), and no packet is declared lost.
C14_RepliesToRightFlowlet ==
  call = HandshakeLost =>
    /\ Len(pq.flowlets) = 2
    /\ pq.flowlets[1].reply_pkt_times = <<1000000>>
    /\ pq.flowlets[2].reply_pkt_times = <<1053000>>
    /\ exactly_replyed(pq.flowlets[1]) /\ exactly_replyed(pq.flowlets[2])
    /\ pq.detected_loss = <<>>

(***************************************************************************)
(* Claims on the RTT calibration                                           *)
(***************************************************************************)
\* the sample exceeds client_rtt by more than flowlet_timeout x flowlet_end_factor
ExceedsClientRtt(c, sample) ==
  sample > c.client_rtt
           + MulF(flowlet_timeout(c.to_client_queue), c.to_client_queue.flowlet_end_factor, 2)

\* how many flowlets at the head of the deque have at least one reply
HeadReplied(fls) ==
  Cardinality({i \in 1..Len(fls) : \A j \in 1..i : fls[j].reply_pkt_times # <<>>})

\* the packet numbers of the first h flowlets
HeadPackets(fls, h) == UNION {Range(fls[i].pkt_nums) : i \in 1..h}

\* the packets whose number is not in nums, in order
PacketsWithout(pkts, nums) ==
  LET Kept(pkt) == pkt.number \notin nums IN SelectSeq(pkts, Kept)

\* connection c2 is c after the reset for `sample`
WasReset(c, c2, sample) ==
  /\ c2.client_rtt = sample
  /\ c2.to_client_queue.flowlets =
       SubSeq(c.to_client_queue.flowlets, HeadReplied(c.to_client_queue.flowlets) + 1,
              Len(c.to_client_queue.flowlets))
  /\ c2.to_client_queue.packets =
       PacketsWithout(c.to_client_queue.packets,
                      HeadPackets(c.to_client_queue.flowlets,
                                  HeadReplied(c.to_client_queue.flowlets)))
  /\ ~c2.to_client_queue.abort

\* `now_ts - last_rtt_calibration >= sample + server_rtt`
CalibrationDue(c, sample, now_ts) ==
  DurationSince(now_ts, c.last_rtt_calibration) >= sample + c.server_rtt

\* C15 (as stated): whenever Conn::rtt_calibration receives a sample that
\* exceeds client_rtt by more than flowlet_timeout x flowlet_end_factor, the
\* reset is performed: the head flowlets of to_client_queue that have a reply
\* are dropped with their packets, the flowlets without any reply are kept,
\* and client_rtt becomes the sample.
C15_ResetOnEveryLargeSample ==
  [][last'.op = "rtt_calibration" =>
       \A k \in DOMAIN pemi.conns :
         ExceedsClientRtt(pemi.conns[k], last'.sample)
           => WasReset(pemi.conns[k], pemi'.conns[k], last'.sample)]_vars

\* C15 (amended): the reset is performed for such a sample when at least
\* sample + server_rtt has passed since the connection's last calibration
\* (at first, its creation); a sample that comes earlier is ignored: nothing
\* is dropped and client_rtt is unchanged.
C15_ResetWhenCalibrationDue ==
  [][last'.op = "rtt_calibration" =>
       \A k \in DOMAIN pemi.conns :
         IF CalibrationDue(pemi.conns[k], last'.sample, clock')
         THEN ExceedsClientRtt(pemi.conns[k], last'.sample)
                => WasReset(pemi.conns[k], pemi'.conns[k], last'.sample)
         ELSE pemi'.conns[k] = pemi.conns[k]]_vars

\* a sample has reset the connection: flowlets were dropped, a flowlet without
\* reply is kept, and client_rtt is the sample
C15_Witness ==
  /\ last.op = "rtt_calibration" /\ last.reset = {FlowConn}
  /\ pemi.conns[FlowConn].client_rtt = last.sample
  /\ pemi.conns[FlowConn].to_client_queue.flowlets # <<>>
  /\ pemi.conns[FlowConn].to_client_queue.flowlets[1].reply_pkt_times = <<>>

(***************************************************************************)
(* Claims on the datagrams that are not handled as QUIC                    *)
(***************************************************************************)
\* what quic_conn_process returns for the datagram d in the state p
Classification(p, d, recv_ts) ==
  quic_conn_process(p, d.parts, ConnIdNew(d.src, d.dst), recv_ts, d.src, d.dst).res

\* C16: when parsing a datagram runs off the end of the buffer
\* (BufferTooShort), the datagram is forwarded transparently exactly once and
\* the engine keeps processing later datagrams: it does not terminate.
C16_BufferTooShortForwarded ==
  [][(last'.op = "process_packet"
        /\ Classification(pemi, last'.d, clock') = "BufferTooShort")
       => /\ last'.sent = <<Datagram("forward", last'.d.id, last'.d.src, last'.d.dst)>>
          /\ pemi'.exit = "running"]_vars

\* C17: when a datagram read from the ICMP socket cannot be parsed as an Echo
\* Reply for an outstanding probe, PEMI only logs and continues: the event
\* loop keeps running, no RTT calibration is applied and no connection state
\* changes.
C17_StrayIcmpIgnored ==
  [][(last'.op = "recv_response" /\ last'.icmp \in IcmpStrays)
       => /\ pemi'.exit = "running"
          /\ pemi'.conns = pemi.conns]_vars

\* C18: when a datagram cannot be QUIC-classified (quic_conn_process returns
\* MayNotQUIC or InvalidState), PEMI forwards it transparently and does
\* nothing else: no connection is created by that datagram and no existing
\* connection's state, last_access, RTTs or queues change.
C18_UnclassifiedOnlyForwarded ==
  [][(last'.op = "process_packet"
        /\ Classification(pemi, last'.d, clock') \in {"MayNotQUIC", "InvalidState"})
       => /\ last'.sent = <<Datagram("forward", last'.d.id, last'.d.src, last'.d.dst)>>
          /\ pemi'.conns = pemi.conns]_vars

(***************************************************************************)
(* Claims on the retransmission tasks of the engine                        *)
(***************************************************************************)
\* the positions in `sent` of the packets of retransmission tasks
RetransAt(sent) == {i \in 1..Len(sent) : sent[i].site = "retrans"}

\* the positions in `sent` at which the datagram `id` itself left
ForwardedAt(sent, id) ==
  {i \in 1..Len(sent) : sent[i].site \in {"forward", "flush", "reorder"} /\ sent[i].id = id}

\* C19: for every retransmission Task produced while a datagram is being
\* processed, that datagram has already been forwarded (it is not held in the
\* delayed-ACK queue) before the first packet of the Task is sent.
C19_ForwardedBeforeRetrans ==
  [][(last'.op = "process_packet" /\ RetransAt(last'.sent) # {})
       => /\ \E i \in ForwardedAt(last'.sent, last'.d.id) :
               \A j \in RetransAt(last'.sent) : i < j
          /\ \A k \in DOMAIN pemi'.conns :
               \A a \in 1..Len(pemi'.conns[k].delayed_ack_queue) :
                 pemi'.conns[k].delayed_ack_queue[a].payload # last'.d.id]_vars

\* a datagram of the client has completed a flowlet with a loss: it was
\* forwarded, and then the lost packet was sent again
C19_Witness ==
  /\ last.op = "process_packet" /\ last.d.src = Client
  /\ Len(last.sent) = 2
  /\ last.sent[1] = Datagram("forward", last.d.id, Client, Server)
  /\ last.sent[2].site = "retrans"

(***************************************************************************)
(* Claims on the timer of the engine                                       *)
(***************************************************************************)
\* IDLE_TIMEOUT minus the age of the oldest entry of the heap, not below zero
IdleLeft(p, now) ==
  Max2(0, IDLE_TIMEOUT - (now - SetMin({t[1] : t \in p.access_times})))

\* the connections that have a reply timeout: client_rtt measured, a flowlet waiting
Awaiting(p) ==
  {k \in DOMAIN p.conns :
     p.conns[k].client_rtt # 0 /\ p.conns[k].to_client_queue.flowlets # <<>>}

\* their reply timeouts
ReplyLeft(p, now) ==
  {queue_timeout(p.conns[k].to_client_queue, now, p.conns[k].client_rtt)[1] : k \in Awaiting(p)}

\* C20: PEMI::timeout returns None exactly when there is no connection;
\* otherwise it returns the minimum of (IDLE_TIMEOUT minus the age of the
\* oldest access-time heap entry, saturating at zero) and the smallest reply
\* timeout of any connection, where a connection whose client_rtt is
\* unmeasured (zero) contributes no reply timeout.
C20_TimeoutIsMinimum ==
  Running =>
    /\ pemi_timeout(pemi, clock) = <<>> <=> DOMAIN pemi.conns = {}
    /\ pemi_timeout(pemi, clock) # <<>> =>
         pemi_timeout(pemi, clock)[1] = SetMin({IdleLeft(pemi, clock)} \cup ReplyLeft(pemi, clock))

\* the timer is the reply timeout of a connection, sooner than the idle timer
C20_Witness ==
  /\ Running /\ Awaiting(pemi) # {}
  /\ pemi_timeout(pemi, clock) # <<>>
  /\ pemi_timeout(pemi, clock)[1] > 0
  /\ pemi_timeout(pemi, clock)[1] < IdleLeft(pemi, clock)
  /\ pemi_timeout(pemi, clock)[1] \in ReplyLeft(pemi, clock)

(***************************************************************************)
(* Claims on the delayed ACKs                                              *)
(***************************************************************************)
\* the datagram of the turn l went through the delayed-ACK queue of p: it waits
\* there, or it left from there
WasDelayed(p, l) ==
  \/ \E k \in DOMAIN p.conns : \E a \in 1..Len(p.conns[k].delayed_ack_queue) :
       p.conns[k].delayed_ack_queue[a].payload = l.d.id
  \/ \E i \in 1..Len(l.sent) : l.sent[i].site \in {"flush", "reorder"} /\ l.sent[i].id = l.d.id

\* C21: a datagram is placed in the delayed-ACK queue instead of being
\* forwarded immediately only if, at its arrival, overspeed is true, its
\* source is the connection's client and the connection is Handshaked;
\* server-to-client datagrams and pre-handshake datagrams are never delayed.
C21_DelayedOnlyClientAcks ==
  [][(last'.op = "process_packet" /\ WasDelayed(pemi', last'))
       => /\ ConnIdNew(last'.d.src, last'.d.dst) \in DOMAIN pemi.conns
          /\ pemi.conns[ConnIdNew(last'.d.src, last'.d.dst)].overspeed
          /\ last'.d.src = pemi.conns[ConnIdNew(last'.d.src, last'.d.dst)].client_addr
          /\ pemi.conns[ConnIdNew(last'.d.src, last'.d.dst)].state = "Handshaked"
          /\ \A i \in 1..Len(last'.sent) :
               last'.sent[i].id = last'.d.id => last'.sent[i].site # "forward"]_vars

\* under overspeed a datagram of the client waits in the queue, nothing was sent
C21_Witness ==
  /\ last.op = "process_packet" /\ last.d.src = Client
  /\ last.sent = <<>>
  /\ FlowConn \in DOMAIN pemi.conns
  /\ pemi.conns[FlowConn].overspeed
  /\ DelayedAcks(pemi) = <<last.d.id>>

\* the connection of the datagram of a turn
TurnConn(l) == ConnIdNew(l.d.src, l.d.dst)

\* the turn l from p to p2 has handled its datagram on a connection that was there
Handled(p, p2, l) ==
  /\ l.op = "process_packet" /\ ~p.proxy_only /\ p2.exit = "running"
  /\ TurnConn(l) \in DOMAIN p.conns /\ TurnConn(l) \in DOMAIN p2.conns

\* the delayed ACKs of the connection when the turn evaluates the release
\* condition: the queue before the turn and, last, the datagram the turn queued
QueueAtCheck(p, p2, l, now) ==
  p.conns[TurnConn(l)].delayed_ack_queue
  \o (IF WasDelayed(p2, l)
      THEN <<[forward_ts |-> now, payload |-> l.d.id,
              e2e_rtt |-> p.conns[TurnConn(l)].client_rtt + p.conns[TurnConn(l)].server_rtt]>>
      ELSE <<>>)

\* queue_len > pkt_thresh, or now - front.forward_ts > max(front.e2e_rtt x
\* time_thresh, 1 ms), with (3, 9/8) while the overspeed has lasted at most
\* front.e2e_rtt and (6, 5/4) after
ThresholdMet(acks, overspeed_begin, now) ==
  IF now - overspeed_begin > acks[1].e2e_rtt
  THEN \/ Len(acks) > 6
       \/ (4 * (now - acks[1].forward_ts) > 5 * acks[1].e2e_rtt
           /\ now - acks[1].forward_ts > 1000)
  ELSE \/ Len(acks) > 3
       \/ (8 * (now - acks[1].forward_ts) > 9 * acks[1].e2e_rtt
           /\ now - acks[1].forward_ts > 1000)

\* the release condition holds when the turn evaluates it under overspeed
DueAtCheck(p, p2, l, now) ==
  /\ Handled(p, p2, l)
  /\ p2.conns[TurnConn(l)].overspeed
  /\ QueueAtCheck(p, p2, l, now) # <<>>
  /\ ThresholdMet(QueueAtCheck(p, p2, l, now), p2.conns[TurnConn(l)].overspeed_begin[1], now)

\* the turn has released the queue acks: the tail first, then the rest in order
ReleasedAll(p2, l, acks) ==
  /\ p2.conns[TurnConn(l)].delayed_ack_queue = <<>>
  /\ SentFrom(l.sent, "reorder")
       = [k \in 1..Len(acks) |-> IF k = 1 THEN acks[Len(acks)].payload ELSE acks[k - 1].payload]

\* C22 (as stated): while overspeed holds, whenever the release condition is
\* evaluated on a non-empty delayed-ACK queue and either queue_len > pkt_thresh
\* or now - front.forward_ts > max(front.e2e_rtt x time_thresh, 1 ms) holds,
\* the queue is released, where (pkt_thresh, time_thresh) is (3, 9/8) if the
\* overspeed has lasted at most front.e2e_rtt and (6, 5/4) otherwise.
C22_ReleasedWheneverDue ==
  [][DueAtCheck(pemi, pemi', last', clock')
       => ReleasedAll(pemi', last', QueueAtCheck(pemi, pemi', last', clock'))]_vars

\* C22 (amended): the queue is released under these conditions when it holds
\* two delayed ACKs or more; a single delayed ACK stays queued under overspeed
\* however long it has waited.
C22_ReleasedWhenDueWithTwo ==
  [][DueAtCheck(pemi, pemi', last', clock')
       => IF Len(QueueAtCheck(pemi, pemi', last', clock')) >= 2
          THEN ReleasedAll(pemi', last', QueueAtCheck(pemi, pemi', last', clock'))
          ELSE /\ pemi'.conns[TurnConn(last')].delayed_ack_queue
                    = QueueAtCheck(pemi, pemi', last', clock')
               /\ SentFrom(last'.sent, "reorder") = <<>>]_vars

\* three delayed ACKs, fewer than the packet threshold asks for, have left
\* because the first had waited longer than the time threshold
C22_Witness ==
  /\ last.op = "process_packet" /\ pemi.exit = "running"
  /\ FlowConn \in DOMAIN pemi.conns
  /\ pemi.conns[FlowConn].overspeed
  /\ Len(SentFrom(last.sent, "reorder")) = 3
  /\ pemi.conns[FlowConn].delayed_ack_queue = <<>>

\* the turn l from p to p2 has handled a datagram that ended the overspeed of its
\* connection
OverspeedEnded(p, p2, l) ==
  /\ Handled(p, p2, l)
  /\ p.conns[TurnConn(l)].overspeed
  /\ ~p2.conns[TurnConn(l)].overspeed

\* C23: when overspeed turns false while a datagram is processed, all queued
\* delayed ACKs are forwarded in FIFO order within that same processing step;
\* hence at the end of every packet event, overspeed == false implies the
\* delayed-ACK queue is empty.
C23_FlushedWhenOverspeedEnds ==
  [][/\ OverspeedEnded(pemi, pemi', last')
          => /\ SentFrom(last'.sent, "flush")
                  = [k \in 1..Len(pemi.conns[TurnConn(last')].delayed_ack_queue) |->
                       pemi.conns[TurnConn(last')].delayed_ack_queue[k].payload]
             /\ SentFrom(last'.sent, "reorder") = <<>>
     /\ \A k \in DOMAIN pemi'.conns :
          ~pemi'.conns[k].overspeed => pemi'.conns[k].delayed_ack_queue = <<>>]_vars

\* a datagram of the server has ended the overspeed: the two delayed ACKs have
\* left behind it, oldest first, and the queue is empty
C23_Witness ==
  /\ last.op = "process_packet" /\ last.d.src = Server
  /\ FlowConn \in DOMAIN pemi.conns
  /\ ~pemi.conns[FlowConn].overspeed
  /\ pemi.conns[FlowConn].delayed_ack_queue = <<>>
  /\ Len(last.sent) = 3
  /\ last.sent[1].site = "forward"
  /\ last.sent[2].site = "flush" /\ last.sent[3].site = "flush"
  /\ last.sent[2].id < last.sent[3].id

(***************************************************************************)
(* Claims on what is retransmitted                                         *)
(***************************************************************************)
\* the arrival numbers of the packets of retransmission tasks in `sent`, in order
Resent(sent) == SentFrom(sent, "retrans")

\* C24: PEMI never retransmits a retransmission: detected_loss only ever
\* holds Raw packets, a lost Retrans record is dropped without being queued,
\* and therefore each original datagram payload is retransmitted by PEMI at
\* most once over any sequence of events.
C24_RetransmittedAtMostOnce ==
  [][/\ \A k \in DOMAIN pemi'.conns :
          \A i \in 1..Len(pemi'.conns[k].to_client_queue.detected_loss) :
            pemi'.conns[k].to_client_queue.detected_loss[i].raw
     /\ \A i \in 1..Len(Resent(last'.sent)) :
          /\ Resent(last'.sent)[i] \in 1..pemi'.stats.pkts
          /\ Resent(last'.sent)[i] \notin resent
          /\ \A j \in 1..Len(Resent(last'.sent)) :
               j # i => Resent(last'.sent)[j] # Resent(last'.sent)[i]]_vars

\* the newest datagram has been retransmitted and nothing has arrived since, so
\* no reply came for the record of the retransmission; the timer has now emptied
\* the queue: the record was found lost, and nothing was sent for it
C24_Witness ==
  /\ last.op = "process_timeout" /\ last.sent = <<>>
  /\ pemi.exit = "running"
  /\ pemi.stats.pkts \in resent
  /\ FlowConn \in DOMAIN pemi.conns
  /\ pemi.conns[FlowConn].to_client_queue.packets = <<>>
  /\ pemi.conns[FlowConn].to_client_queue.detected_loss = <<>>

(***************************************************************************)
(* Claims on the flowlets of a PacketQueue                                 *)
(***************************************************************************)
\* no flowlet of the queue is marked complete
NoneComplete(q) == \A i \in 1..Len(q.flowlets) : ~q.flowlets[i].complete

\* the flowlet taken out as the k-th by an operation that started from queue q
\* holds the packets of q.flowlets[k], and the replies `replies`
TakenAs(q, removed, k, replies) ==
  /\ k <= Len(q.flowlets)
  /\ [i \in 1..Len(removed[k].pkts) |-> removed[k].pkts[i].number] = q.flowlets[k].pkt_nums
  /\ removed[k].replies = replies

\* C25: once a flowlet is marked complete it is never mutated again: no packet
\* and no reply is added to a complete flowlet (a flowlet that an operation
\* takes out leaves with the packets it had before the operation, and with the
\* replies it had, the one flowlet of a queue plus the reply that completed
\* it), and after every PacketQueue operation (add, check_reply, on_timeout,
\* reset) returns, no flowlet still in the queue is marked complete.
C25_CompleteNeverMutated ==
  /\ [](~pq.abort => NoneComplete(pq))
  /\ [][~pq'.abort =>
          \A k \in 1..Len(qlast'.removed) :
            TakenAs(pq, qlast'.removed, k,
                    IF qlast'.op = "check_reply" /\ Len(pq.flowlets) = 1
                    THEN Append(pq.flowlets[k].reply_pkt_times, qnow')
                    ELSE pq.flowlets[k].reply_pkt_times)]_vars

\* a reply went to the second of three flowlets: the first was marked complete
\* and is gone, the two that are left are not complete
C25_Witness ==
  /\ qlast.op = "check_reply" /\ qlast.accepted
  /\ Len(qlast.removed) = 1
  /\ Len(pq.flowlets) = 2 /\ NoneComplete(pq)
  /\ pq.flowlets[1].reply_pkt_nums # <<>>
  /\ ~pq.abort

\* the flowlets of q that hold the reply numbered pkt_num
HoldersOf(q, pkt_num) ==
  {i \in 1..Len(q.flowlets) : pkt_num \in Range(q.flowlets[i].reply_pkt_nums)}

\* C26: after check_reply accepts a reply, if the flowlet that received it has
\* more than FLOWLET_MAX_PKTS (100) sent packets, that flowlet is marked
\* complete (and so leaves the queue within the call, C25), whether it is the
\* only flowlet in the queue or one of several.
C26_LongFlowletCompleted ==
  [][(qlast'.op = "check_reply" /\ qlast'.accepted /\ ~pq'.abort)
       => \A i \in HoldersOf(pq', pq'.reply_nums) :
            Len(pq'.flowlets[i].pkt_nums) > 100 => pq'.flowlets[i].complete]_vars

\* C27 as stated: PacketQueue::add aborts instead of inserting whenever the
\* queue already holds 1000 or more packets, so in every reachable state a
\* queue holds at most 1000 packets.
C27_AtMost1000 ==
  /\ [](Len(pq.packets) <= 1000)
  /\ [][(qlast'.op = "add" /\ Len(pq.packets) >= 1000)
          => pq'.abort /\ pq'.packets = pq.packets]_vars

\* C27: PacketQueue::add aborts instead of inserting whenever the queue
\* already holds more than 1000 packets, and inserts into a queue that holds
\* 1000 or fewer, so in every reachable state a queue holds at most 1001 packets.
C27_AtMost1001 ==
  /\ [](Len(pq.packets) <= 1001)
  /\ [][qlast'.op = "add"
          => IF Len(pq.packets) > 1000
             THEN pq'.abort /\ pq'.packets = pq.packets
             ELSE ~pq'.abort /\ Len(pq'.packets) = Len(pq.packets) + 1]_vars

\* the queue held 1001 packets when the next one came: add has panicked
C27_Witness ==
  /\ qlast.op = "add" /\ pq.abort
  /\ Len(pq.packets) = 1001
  /\ pq.processed = 1002

(***************************************************************************)
(* Claims on the flowlet timer                                             *)
(***************************************************************************)
\* the head flowlet of queue q is no longer in queue q2
HeadGone(q, q2) ==
  /\ \A i \in 1..Len(q2.flowlets) : q.flowlets[1].pkt_nums[1] \notin Range(q2.flowlets[i].pkt_nums)
  /\ \A i \in 1..Len(q2.packets) : q2.packets[i].number # q.flowlets[1].pkt_nums[1]

\* C28: whenever the flowlet timeout fires, i.e. Conn::timeout(now) returns
\* zero for a connection, handling it with Conn::on_timeout(now) marks the head
\* flowlet of to_client_queue complete and drains it (the head flowlet is
\* removed and its loss detection runs).
C28_FiredTimerDrainsHead ==
  [][(last'.op = "process_timeout" /\ pemi'.exit = "running")
       => \A k \in DOMAIN pemi.conns \cap DOMAIN pemi'.conns :
            conn_timeout(pemi.conns[k], clock') = <<0>>
              => HeadGone(pemi.conns[k].to_client_queue, pemi'.conns[k].to_client_queue)]_vars

(***************************************************************************)
(* Claims on check_reply                                                   *)
(***************************************************************************)
\* the reply times of a flowlet of the queue, or of the record of a flowlet
\* an operation has taken out
ReplyTimesOf(fl) ==
  IF "replies" \in DOMAIN fl THEN fl.replies ELSE fl.reply_pkt_times

\* the flowlets queue q had before an operation, as the operation has left
\* them: the ones taken out, then the ones still in q2
FlowletsAfter(removed, q2) == removed \o q2.flowlets

\* the conditions of C29 under which check_reply(now, id, rtt) rejects on queue q
RejectDue(q, now, rtt) ==
  \/ q.flowlets = <<>>
  \/ /\ q.flowlets # <<>>
     /\ now < q.flowlets[1].begin_time + rtt - (flowlet_end_timeout(q, rtt) - rtt)
     /\ q.flowlets[1].reply_pkt_times = <<>>
  \/ /\ q.flowlets # <<>>
     /\ now > q.flowlets[Len(q.flowlets)].end_time + rtt + (flowlet_end_timeout(q, rtt) - rtt)

\* C29: check_reply(now, id, rtt) rejects the reply (returns None and leaves
\* every flowlet unchanged) exactly when there is no flowlet, or
\* now < flowlet[0].begin_time + rtt - (flowlet_end_timeout - rtt) while
\* flowlet[0] has no reply yet, or
\* now > last_flowlet.end_time + rtt + (flowlet_end_timeout - rtt); otherwise
\* the reply is appended to exactly one flowlet.
C29_RejectedExactlyWhenOutside ==
  [][(qlast'.op = "check_reply" /\ ~pq'.abort)
       => IF RejectDue(pq, qnow', QueueRtt)
          THEN ~qlast'.accepted /\ pq'.flowlets = pq.flowlets
          ELSE /\ qlast'.accepted
               /\ Len(FlowletsAfter(qlast'.removed, pq')) = Len(pq.flowlets)
               /\ \E i \in 1..Len(pq.flowlets) :
                    /\ ReplyTimesOf(FlowletsAfter(qlast'.removed, pq')[i])
                         = Append(pq.flowlets[i].reply_pkt_times, qnow')
                    /\ \A j \in 1..Len(pq.flowlets) :
                         j # i => ReplyTimesOf(FlowletsAfter(qlast'.removed, pq')[j])
                                    = pq.flowlets[j].reply_pkt_times]_vars

\* a second reply came earlier than the window of the head flowlet allows for
\* a first one; the head flowlet had a reply already, so it was accepted
C29_Witness ==
  /\ qlast.op = "check_reply" /\ qlast.accepted /\ ~pq.abort
  /\ pq.flowlets # <<>>
  /\ Len(pq.flowlets[1].reply_pkt_times) >= 2
  /\ qnow < pq.flowlets[1].begin_time + QueueRtt
             - (flowlet_end_timeout(pq, QueueRtt) - QueueRtt)

\* now lies in the window [begin + rtt, end + rtt] of flowlet fl
InWindow(fl, now, rtt) == fl.begin_time + rtt <= now /\ now <= fl.end_time + rtt

\* the distance from now to the window of flowlet fl
WindowDistance(fl, now, rtt) ==
  IF now < fl.begin_time + rtt THEN fl.begin_time + rtt - now
  ELSE IF now > fl.end_time + rtt THEN now - (fl.end_time + rtt)
  ELSE 0

\* the flowlet i of fls is the one C30 names for a reply at now
RightFlowlet(fls, i, now, rtt) ==
  IF \E j \in 1..Len(fls) : InWindow(fls[j], now, rtt)
  THEN InWindow(fls[i], now, rtt) /\ \A j \in 1..i - 1 : ~InWindow(fls[j], now, rtt)
  ELSE \A j \in 1..Len(fls) :
         WindowDistance(fls[i], now, rtt) <= WindowDistance(fls[j], now, rtt)

\* C30: with several flowlets present, an accepted reply is appended to the
\* first flowlet whose window [begin+rtt, end+rtt] contains now, or, if none
\* does, to the flowlet with the smallest distance from now to that window;
\* all strictly earlier flowlets are then marked complete and removed, and no
\* later flowlet is marked complete.
C30_ReplyToNearestFlowlet ==
  [][(qlast'.op = "check_reply" /\ qlast'.accepted /\ ~pq'.abort /\ Len(pq.flowlets) >= 2)
       => \E i \in 1..Len(pq.flowlets) :
            /\ RightFlowlet(pq.flowlets, i, qnow', QueueRtt)
            /\ Len(qlast'.removed) = i - 1
            /\ \A j \in 1..i - 1 :
                 /\ qlast'.removed[j].replies = pq.flowlets[j].reply_pkt_times
                 /\ [k \in 1..Len(qlast'.removed[j].pkts) |-> qlast'.removed[j].pkts[k].number]
                      = pq.flowlets[j].pkt_nums
            /\ pq'.flowlets
                 = <<add_reply(pq.flowlets[i], qnow', pq'.reply_nums)>>
                     \o SubSeq(pq.flowlets, i + 1, Len(pq.flowlets))
            /\ NoneComplete(pq')]_vars

\* three flowlets, no window holds the reply: it went to the second, the
\* nearest, the first is gone and the third is as it was
C30_Witness ==
  /\ qlast.op = "check_reply" /\ qlast.accepted /\ ~pq.abort
  /\ Len(qlast.removed) = 1
  /\ Len(pq.flowlets) = 2
  /\ pq.flowlets[1].reply_pkt_times = <<qnow>>
  /\ ~InWindow(pq.flowlets[1], qnow, QueueRtt)
  /\ ~InWindow(pq.flowlets[2], qnow, QueueRtt)
  /\ WindowDistance(pq.flowlets[1], qnow, QueueRtt) < WindowDistance(pq.flowlets[2], qnow, QueueRtt)
  /\ pq.flowlets[2].reply_pkt_times = <<>>

(***************************************************************************)
(* Claims on the completion of a flowlet                                   *)
(***************************************************************************)
\* the flowlet whose record `rec` an operation has kept when it took it out
FlowletOf(rec) ==
  [pkt_nums |-> [k \in 1..Len(rec.pkts) |-> rec.pkts[k].number],
   close_count |-> 0,
   reply_pkt_times |-> rec.replies, reply_pkt_nums |-> <<>>,
   begin_time |-> rec.pkts[1].timestamp,
   end_time |-> rec.pkts[Len(rec.pkts)].timestamp,
   complete |-> TRUE]

SentOf(rec) == [k \in 1..Len(rec.pkts) |-> rec.pkts[k].timestamp]

\* the loss set and the samples of `rec` are those of the partial matching
ByPartialMatching(rec, rtt, eliciting_threshold) ==
  /\ rec.lossed_pkts
       = extract_part_loss(FlowletOf(rec), SentOf(rec),
                           match_sent_part_reply(FlowletOf(rec), SentOf(rec), rtt),
                           eliciting_threshold)
  /\ rec.samples
       = extract_rtt_samples(FlowletOf(rec),
                             match_sent_part_reply(FlowletOf(rec), SentOf(rec), rtt),
                             SentOf(rec))

\* C31: when the head flowlet with s sent packets and r replies is completed:
\* r > s yields an empty loss set and no RTT samples; r = s yields an empty
\* loss set and s RTT samples; r = 0 marks all s sent packets lost with no RTT
\* samples; 0 < r < s derives loss set and samples from the DP partial matching.
C31_VerdictByReplyCount ==
  [][(qlast'.op \in {"check_reply", "on_timeout"} /\ ~pq'.abort)
       => \A k \in 1..Len(qlast'.removed) :
            IF Len(qlast'.removed[k].replies) > Len(qlast'.removed[k].pkts)
            THEN qlast'.removed[k].lossed_pkts = {} /\ qlast'.removed[k].samples = <<>>
            ELSE IF Len(qlast'.removed[k].replies) = Len(qlast'.removed[k].pkts)
            THEN /\ qlast'.removed[k].lossed_pkts = {}
                 /\ Len(qlast'.removed[k].samples) = Len(qlast'.removed[k].pkts)
            ELSE IF qlast'.removed[k].replies = <<>>
            THEN /\ qlast'.removed[k].lossed_pkts
                      = {qlast'.removed[k].pkts[i].number : i \in 1..Len(qlast'.removed[k].pkts)}
                 /\ qlast'.removed[k].samples = <<>>
            ELSE ByPartialMatching(qlast'.removed[k], QueueRtt, pq.eliciting_threshold)]_vars

\* a flowlet of three packets and two replies was completed by its timer
C31_Witness ==
  /\ qlast.op = "on_timeout" /\ ~pq.abort
  /\ Len(qlast.removed) = 1
  /\ Len(qlast.removed[1].pkts) = 3
  /\ Len(qlast.removed[1].replies) = 2
  /\ qlast.removed[1].samples # <<>>

(***************************************************************************)
(* SpecLoss: Flowlet::extract_part_loss called once on a flowlet of up to  *)
(* MaxLossLen packets sent 50 us or 200 us apart, with a mapping of the    *)
(* kind match_sent_reply_dp returns (C13) that leaves some packet          *)
(* unmatched and matches at least one                                      *)
(***************************************************************************)
MaxLossLen == 5
LossGaps == {50, 200}
LossThresholds == {1, 2}

RECURSIVE TimesFrom(_, _)
\* the sent times of packets that follow one sent at `start` with the gaps `gaps`
TimesFrom(start, gaps) ==
  IF gaps = <<>> THEN <<start>>
  ELSE <<start>> \o TimesFrom(start + Head(gaps), Tail(gaps))

LossFlowlet(times) ==
  [pkt_nums |-> [k \in 1..Len(times) |-> 10 + k], close_count |-> 0,
   reply_pkt_times |-> <<>>, reply_pkt_nums |-> <<>>,
   begin_time |-> times[1], end_time |-> times[Len(times)], complete |-> TRUE]

LossArgs(times, map, eliciting_threshold) ==
  [times |-> times, map |-> map, eliciting_threshold |-> eliciting_threshold]

LossCalls ==
  UNION {{LossArgs(TimesFrom(0, gaps), MappingOf(n, T), thr) :
            gaps \in [1..n - 1 -> LossGaps],
            T \in {U \in SUBSET (1..n) : U # {} /\ U # 1..n},
            thr \in LossThresholds} :
         n \in 2..MaxLossLen}

LossInit ==
  /\ call \in LossCalls
  /\ ret = <<>>
  /\ QueueIdle /\ ConnIdIdle /\ StatsIdle /\ EngineIdle

LossCall ==
  /\ ret = <<>>
  /\ ret' = <<extract_part_loss(LossFlowlet(call.times), call.times, call.map,
                                call.eliciting_threshold)>>
  /\ UNCHANGED <<call, qvars, cvars, svars, evars>>

LossNext == LossCall

SpecLoss == LossInit /\ [][LossNext]_vars

(***************************************************************************)
(* Claims on the loss set of a partly replied flowlet                      *)
(***************************************************************************)
\* every gap between the packets i and k (1-based, either order) is shorter
\* than CLOSE_THRESHOLD (100 us)
CloseChain(times, i, k) ==
  \A x \in (IF i < k THEN i ELSE k)..(IF i < k THEN k ELSE i) - 1 :
    times[x + 1] - times[x] < 100

\* the packets a matched packet reaches across close gaps, the matched included
ReachedBy(times, map) ==
  {i \in 1..Len(map) : \E m \in Matched(map) : CloseChain(times, i, m)}

\* packet i is a single unreached packet between reached ones, or the first
\* packet with a reached one behind it: an isolated packet before the tail
IsolatedBeforeTail(times, map, i) ==
  /\ i \notin ReachedBy(times, map)
  /\ i < Len(map) /\ i + 1 \in ReachedBy(times, map)
  /\ i > 1 => i - 1 \in ReachedBy(times, map)

\* C32: extract_part_loss returns exactly the packets that are unmatched by the
\* DP mapping, are not reached by propagation from a matched packet across
\* contiguous gaps shorter than CLOSE_THRESHOLD (100 us), and, when
\* eliciting_threshold is 2, are not an isolated single unmatched packet lying
\* before the tail of the flowlet; a packet matched by the mapping is never
\* reported lost.
C32_LossSetOfPartialFlowlet ==
  ret # <<>> =>
    /\ ret[1] = {10 + i :
                   i \in {x \in 1..Len(call.map) :
                            /\ x \notin Matched(call.map)
                            /\ x \notin ReachedBy(call.times, call.map)
                            /\ ~(call.eliciting_threshold = 2
                                 /\ IsolatedBeforeTail(call.times, call.map, x))}}
    /\ \A i \in Matched(call.map) : 10 + i \notin ret[1]

\* five packets 200 us apart, the first and the third matched, eliciting
\* threshold 2: the second is spared, the two at the tail are lost
C32_Witness ==
  /\ call.map = <<0, -1, 1, -1, -1>>
  /\ call.times = <<0, 200, 400, 600, 800>>
  /\ call.eliciting_threshold = 2
  /\ ret = <<{14, 15}>>

(***************************************************************************)
(* SpecHandshake: the loop of main on MaxShakeLen datagrams of one pair of    *)
(* addresses, 1 ms apart, with long-header packets of either direction     *)
(***************************************************************************)
MaxShakeLen == 4

ShakeClientKinds == {<<<<"Initial">>, 1200>>, <<<<"Handshake">>, 1200>>,
                  <<<<"Initial", "Handshake">>, 1200>>, <<<<"Short">>, 40>>}

ShakeServerKinds == {<<<<"Initial">>, 1200>>, <<<<"Initial", "Handshake">>, 1200>>,
                  <<<<"HandshakeCut">>, 1200>>, <<<<"Short">>, 1200>>}

ShakeInputs ==
  {Ev(1000, Client, Server, k[1], k[2]) : k \in ShakeClientKinds}
  \cup {Ev(1000, Server, Client, k[1], k[2]) : k \in ShakeServerKinds}

ShakeInit ==
  /\ pemi = set_proxy_only(pemi_set_factors(PEMINew, 4, 1), FALSE)
  /\ env \in {[script |-> s, budget |-> 0, horizon |-> MaxClock] :
                s \in [1..MaxShakeLen -> ShakeInputs]}
  /\ clock = 0
  /\ last = Started
  /\ forwarded = [dir \in FlowDirs |-> 0]
  /\ resent = {}
  /\ QueueIdle /\ ConnIdIdle /\ StatsIdle /\ CallIdle

ShakeNext == RecvPacket \/ Sleep \/ ProcessTimeout

SpecHandshake == ShakeInit /\ [][ShakeNext]_vars

(***************************************************************************)
(* Claims on the state of a Conn                                           *)
(***************************************************************************)
\* the datagram holds a packet with a long header of type Handshake
HasHandshake(d) ==
  \E k \in 1..Len(d.parts) : HeaderType(d.parts[k]) = "Handshake"

\* C33: a Conn starts in Initialed, moves to Handshaked only when a long-header
\* Handshake packet from the server direction is processed, and never returns
\* to Initialed; a Handshake packet arriving from the client direction never
\* sets Handshaked.
C33_HandshakedByServerOnly ==
  [][\A k \in DOMAIN pemi'.conns :
       IF k \notin DOMAIN pemi.conns
       THEN pemi'.conns[k].state = "Initialed"
       ELSE /\ pemi.conns[k].state = "Handshaked" => pemi'.conns[k].state = "Handshaked"
            /\ (pemi.conns[k].state = "Initialed" /\ pemi'.conns[k].state = "Handshaked")
                 => /\ last'.op = "process_packet"
                    /\ last'.d.src = pemi.conns[k].server_addr
                    /\ HasHandshake(last'.d)
            /\ (last'.op = "process_packet" /\ last'.d.src = pemi.conns[k].client_addr
                /\ HasHandshake(last'.d))
                 => pemi'.conns[k].state = pemi.conns[k].state]_vars

\* the server's Initial and Handshake have just been processed and the
\* connection of the client is Handshaked
C33_Witness ==
  /\ last.op = "process_packet"
  /\ last.d.src = Server /\ HasHandshake(last.d)
  /\ pemi.exit = "running"
  /\ \E k \in DOMAIN pemi.conns :
       pemi.conns[k].client_addr = Client /\ pemi.conns[k].state = "Handshaked"

(***************************************************************************)
(* SpecCopa: the loop of main after the handshake of one connection, with  *)
(* MaxCopaFree further inputs: a datagram of either side or the Echo Reply *)
(* of an outstanding probe, 1 ms, 3.2 ms or 12 ms after the turn before    *)
(***************************************************************************)
MaxCopaFree == 3
CopaSteps == {1000, 3200, 12000}

CopaInputs ==
  {Ev(dt, Client, Server, <<"Short">>, 40) : dt \in CopaSteps}
  \cup {Ev(dt, Server, Client, <<"Short">>, 1200) : dt \in CopaSteps}

\* the Initial of the client and, 50 us later, the server's Initial and Handshake
CopaStart ==
  <<Ev(1000, Client, Server, <<"Initial">>, 1200),
    Ev(50, Server, Client, <<"Initial", "Handshake">>, 1200)>>

CopaInit ==
  /\ pemi = set_proxy_only(pemi_set_factors(PEMINew, 4, 1), FALSE)
  /\ env = [script |-> CopaStart, budget |-> MaxCopaFree, horizon |-> MaxClock]
  /\ clock = 0
  /\ last = Started
  /\ forwarded = [dir \in FlowDirs |-> 0]
  /\ resent = {}
  /\ QueueIdle /\ ConnIdIdle /\ StatsIdle /\ CallIdle

CopaRecv ==
  \E ev \in (IF env.script # <<>> THEN {Head(env.script)}
             ELSE IF env.budget > 0 THEN CopaInputs ELSE {}) :
    /\ Running
    /\ Arrives(ev.dt)
    /\ Received(ev, clock + ev.dt)

CopaIcmp ==
  \E k \in 1..Len(pemi.probes), dt \in CopaSteps :
    /\ Running
    /\ env.script = <<>> /\ env.budget > 0
    /\ Arrives(dt)
    /\ Responded(k, clock + dt)

CopaNext == CopaRecv \/ Sleep \/ ProcessTimeout \/ CopaIcmp

SpecCopa == CopaInit /\ [][CopaNext]_vars

(***************************************************************************)
(* Claims on the congestion window                                         *)
(***************************************************************************)
\* C34: in every reachable Copa state cwnd >= 10: starting from the initial
\* value 10, no sequence of on_ack_send updates in slow start or congestion
\* avoidance takes cwnd below the floor of 10.
C34_CwndAtLeast10 ==
  \A k \in DOMAIN pemi.conns : pemi.conns[k].cc.cwnd >= 10 * CwndUnit

(***************************************************************************)
(* Claims on the packets and the flowlets of a PacketQueue                 *)
(***************************************************************************)
\* the numbers of the packets deque, front to back
PacketNumbers(q) == [k \in 1..Len(q.packets) |-> q.packets[k].number]

RECURSIVE FlowletNumbers(_)
\* the pkt_nums of the flowlets deque, front to back, one after the other
FlowletNumbers(fls) ==
  IF fls = <<>> THEN <<>> ELSE Head(fls).pkt_nums \o FlowletNumbers(Tail(fls))

\* get_packet finds every packet of every flowlet of q under its number
AllFound(q) ==
  \A i \in 1..Len(q.flowlets) : \A k \in 1..Len(q.flowlets[i].pkt_nums) :
    /\ q.flowlets[i].pkt_nums[k] >= q.packets[1].number
    /\ q.flowlets[i].pkt_nums[k] <= Last(q.packets).number
    /\ get_packet(q, q.flowlets[i].pkt_nums[k]).number = q.flowlets[i].pkt_nums[k]

PacketsAligned(q) ==
  /\ ~q.abort
  /\ PacketNumbers(q) = FlowletNumbers(q.flowlets)
  /\ AllFound(q)

\* C35: in every reachable state of a PacketQueue, the packets deque is exactly
\* the concatenation, in order, of the pkt_nums of the flowlets in the flowlets
\* deque, so the packet-number assertions in remove_a_complete_flowlet and
\* reset_due_to_rtt_deviation never fail and get_packet finds every packet of
\* every flowlet.
C35_PacketsAreTheFlowlets ==
  /\ pq # <<>> => PacketsAligned(pq)
  /\ pemi # <<>> =>
       \A k \in DOMAIN pemi.conns :
         PacketsAligned(pemi.conns[k].to_client_queue)
         /\ PacketsAligned(pemi.conns[k].to_server_queue)

\* a reply has just taken the head flowlet and its packets out of a queue that
\* still holds a flowlet and its packets
C35_Witness ==
  /\ qlast.op = "check_reply"
  /\ qlast.removed # <<>>
  /\ pq.flowlets # <<>>
  /\ pq.packets[1].number > 1

(***************************************************************************)
(* Claims on the first RTT measurements of a Conn                          *)
(***************************************************************************)
\* process_udp_packet has read oldest_ts() of an empty queue of c for a
\* datagram from src: `oldest_ts().unwrap()` on None
ReadOfEmptyQueue(c, src) ==
  /\ c.abort
  /\ IF src = c.client_addr
     THEN c.client_rtt = 0 /\ c.server_rtt # 0 /\ c.to_client_queue.packets = <<>>
     ELSE c.server_rtt = 0 /\ c.to_server_queue.packets = <<>>

\* C36: Conn::process_udp_packet never reads the oldest timestamp of an empty
\* queue: whenever the first server-direction datagram of a connection is
\* processed (server_rtt still zero) to_server_queue holds at least one packet,
\* and whenever the first client RTT is measured to_client_queue holds at least
\* one packet, for every sequence of datagrams, timeouts and calibrations.
C36_OldestOfNonEmptyQueue ==
  last.op = "process_packet" =>
    \A k \in DOMAIN pemi.conns : ~ReadOfEmptyQueue(pemi.conns[k], last.d.src)

(***************************************************************************)
(* SpecAckIdle: the handshake and the burst of Warmup, then up to          *)
(* MaxIdleAcks small datagrams of the client 50 us apart, then nothing but *)
(* the timers of the loop.  The loop of main never stops polling, so a     *)
(* datagram that is there is received and a timer that is due is handled.  *)
(***************************************************************************)
MaxIdleAcks == 3

AckIdleScripts ==
  {Warmup \o [k \in 1..n |-> Ev(50, Client, Server, <<"Short">>, 40)] : n \in 1..MaxIdleAcks}

AckIdleInit ==
  /\ pemi = set_proxy_only(pemi_set_factors(PEMINew, 4, 1), FALSE)
  /\ env \in {[script |-> s, budget |-> 0, horizon |-> MaxIdleClock] : s \in AckIdleScripts}
  /\ clock = 0
  /\ last = Started
  /\ forwarded = [dir \in FlowDirs |-> 0]
  /\ resent = {}
  /\ QueueIdle /\ ConnIdIdle /\ StatsIdle /\ CallIdle

AckIdleNext == RecvPacket \/ Sleep \/ ProcessTimeout

\* the guards of RecvPacket, Sleep and ProcessTimeout
DatagramDue == \E ev \in Inputs : Running /\ Arrives(ev.dt)

SleepDue ==
  /\ Running
  /\ pemi_timeout(pemi, clock) # <<>>
  /\ pemi_timeout(pemi, clock)[1] > 0
  /\ Quiet(pemi_timeout(pemi, clock)[1])
  /\ clock + pemi_timeout(pemi, clock)[1] <= env.horizon

TimerDue == Running /\ pemi_timeout(pemi, clock) = <<0>>

\* weak fairness of the three actions, with their guards written out
LoopFair ==
  /\ []<>(~DatagramDue) \/ []<><<RecvPacket>>_vars
  /\ []<>(~SleepDue) \/ []<><<Sleep>>_vars
  /\ []<>(~TimerDue) \/ []<><<ProcessTimeout>>_vars

SpecAckIdle == AckIdleInit /\ [][AckIdleNext]_vars /\ LoopFair

(***************************************************************************)
(* Claims on the fate of a delayed ACK                                     *)
(***************************************************************************)
\* the arrival numbers of the client's datagrams that follow the burst
IdleAckIds == Len(Warmup) + 1 .. Len(Warmup) + MaxIdleAcks

\* the datagram id waits in the delayed-ACK queue of a connection
InDelayedQueue(id) ==
  \E k \in DOMAIN pemi.conns : \E a \in 1..Len(pemi.conns[k].delayed_ack_queue) :
    pemi.conns[k].delayed_ack_queue[a].payload = id

\* the turn of the loop just taken has sent the datagram id to the server
SentToServer(id) ==
  \E j \in 1..Len(last.sent) : last.sent[j].id = id /\ last.sent[j].dst = Server

\* the leads-to form: under LoopFair, a datagram in the delayed-ACK queue is
\* sent to the server later on
DelayedAckForwarded ==
  \A id \in IdleAckIds : InDelayedQueue(id) ~> SentToServer(id)

\* C37: every client-to-server datagram placed in the delayed-ACK queue is
\* eventually forwarded to the server exactly once; it is never discarded, even
\* if no further datagram of that connection arrives (only timer events occur)
\* or the connection becomes idle and is evicted.  A datagram is forwarded
\* from the queue only, so none is discarded only if a connection leaves the
\* table with an empty delayed-ACK queue.
C37_EvictedWithoutAcks ==
  [][\A k \in DOMAIN pemi.conns \ DOMAIN pemi'.conns :
       pemi.conns[k].delayed_ack_queue = <<>>]_vars

(***************************************************************************)
(* Claims on the losses handed to a retransmission task                    *)
(***************************************************************************)
\* the packet numbers of a sequence of packets
NumbersIn(pkts) == {pkts[k].number : k \in 1..Len(pkts)}

\* C38: after every call of Conn::to_client_retrans_task, detected_loss of the
\* to_client queue is empty whether or not a Task was returned: losses detected
\* while the gate is closed (dominant direction not ToClient, or overspeed) are
\* discarded and are never retransmitted by a later call.  A later call could
\* only retransmit what is in detected_loss, and a packet enters detected_loss
\* only as it leaves packets, which a discarded packet has left before.
C38_ClosedGateDiscardsLosses ==
  /\ [](NumbersIn(pq.detected_loss) \cap NumbersIn(pq.packets) = {})
  /\ [][/\ qlast'.op = "retrans_task" =>
             /\ pq'.detected_loss = <<>>
             /\ qlast'.task =
                  IF pq.detected_loss # <<>> /\ qlast'.dominant_direction = "ToClient"
                     /\ ~qlast'.overspeed
                  THEN <<[src |-> "server", dst |-> "client",
                          retrans_queue |-> pq.detected_loss]>>
                  ELSE <<>>
        /\ NumbersIn(pq'.detected_loss) \ NumbersIn(pq.detected_loss)
             \subseteq NumbersIn(pq.packets) \ NumbersIn(pq'.packets)]_vars

\* a call with the gate closed has found losses, returned no Task and left
\* detected_loss empty
C38_Witness ==
  /\ qlast.op = "retrans_task"
  /\ qlast.had_loss
  /\ qlast.dominant_direction # "ToClient" \/ qlast.overspeed
  /\ qlast.task = <<>>
  /\ pq.detected_loss = <<>>

(***************************************************************************)
(* SpecSilent: the Initial of a client, then up to MaxSilentData datagrams *)
(* of the server, then nothing but the timers of the loop: the client      *)
(* never sends again                                                       *)
(***************************************************************************)
MaxSilentData == 3

SilentInputs ==
  {Ev(dt, Server, Client, parts, 1200) :
     dt \in PktSteps, parts \in {<<"Initial", "Handshake">>, <<"Short">>}}

SilentScripts ==
  UNION {{<<Ev(1000, Client, Server, <<"Initial">>, 1200)>> \o s :
            s \in [1..n -> SilentInputs]} : n \in 1..MaxSilentData}

SilentInit ==
  /\ pemi = set_proxy_only(pemi_set_factors(PEMINew, 4, 1), FALSE)
  /\ env \in {[script |-> s, budget |-> 0, horizon |-> MaxIdleClock] : s \in SilentScripts}
  /\ clock = 0
  /\ last = Started
  /\ forwarded = [dir \in FlowDirs |-> 0]
  /\ resent = {}
  /\ QueueIdle /\ ConnIdIdle /\ StatsIdle /\ CallIdle

SilentNext == RecvPacket \/ Sleep \/ ProcessTimeout

SpecSilent == SilentInit /\ [][SilentNext]_vars /\ LoopFair

(***************************************************************************)
(* Claims on the stay of a packet in to_client_queue                       *)
(***************************************************************************)
\* a to_client_queue holds the packet number n
InToClientQueue(n) ==
  \E k \in DOMAIN pemi.conns : n \in NumbersIn(pemi.conns[k].to_client_queue.packets)

\* a to_client_queue has held the packet number n and holds it no more
OutOfToClientQueue(n) ==
  \E k \in DOMAIN pemi.conns :
    /\ pemi.conns[k].to_client_queue.processed >= n
    /\ n \notin NumbersIn(pemi.conns[k].to_client_queue.packets)

\* the leads-to form: under LoopFair, a packet in to_client_queue is out of it
\* later on
PacketLeavesToClientQueue ==
  \A n \in 1..MaxSilentData : InToClientQueue(n) ~> OutOfToClientQueue(n)

\* C39: every packet added to a connection's to_client_queue is eventually
\* removed from it (its flowlet is completed by a reply or by the flowlet
\* timeout), provided time advances and the event loop keeps processing timer
\* events, including when the client never sends a datagram after the server's
\* first one.  A flowlet is completed on its Conn only, so every packet is
\* removed in that way only if a connection leaves the table with an empty
\* to_client_queue.
C39_EvictedWithEmptyQueue ==
  [][\A k \in DOMAIN pemi.conns \ DOMAIN pemi'.conns :
       pemi.conns[k].to_client_queue.packets = <<>>]_vars

(***************************************************************************)
(* SpecFlood: a client that sends MaxFlood datagrams with an Initial       *)
(* packet, 50 us apart, to a server that never answers                     *)
(***************************************************************************)
MaxFlood == 1002

FloodInit ==
  /\ pemi = set_proxy_only(pemi_set_factors(PEMINew, 4, 1), FALSE)
  /\ env = [script |-> [k \in 1..MaxFlood |-> Ev(50, Client, Server, <<"Initial">>, 1200)],
            budget |-> 0, horizon |-> MaxClock]
  /\ clock = 0
  /\ last = Started
  /\ forwarded = [dir \in FlowDirs |-> 0]
  /\ resent = {}
  /\ QueueIdle /\ ConnIdIdle /\ StatsIdle /\ CallIdle

FloodNext == RecvPacket

SpecFlood == FloodInit /\ [][FloodNext]_vars

(***************************************************************************)
(* Claims on the size of the queues of a Conn                              *)
(***************************************************************************)
\* C40: no sequence of datagrams and timer events drives a connection's
\* to_server_queue or to_client_queue to the size at which PacketQueue::add
\* aborts: to_server_queue receives packets only while server_rtt is unmeasured
\* and both queues stay below the limit, including when the server never
\* answers a client that keeps sending.
C40_QueuesBelowLimit ==
  \A k \in DOMAIN pemi.conns :
    /\ ~pemi.conns[k].to_server_queue.abort
    /\ ~pemi.conns[k].to_client_queue.abort

====
